---- MODULE Spec2Model ----
(***************************************************************************)
(* Verification model of bux: the host runtime and its VM registry         *)
(* (bux/src/runtime.rs, bux/src/state.rs), the OCI image store             *)
(* (bux-oci/src/store.rs, bux-oci/src/lib.rs), the guest agent's session   *)
(* dispatch and exec channel (bux-guest/src/server.rs, exec/mod.rs) and    *)
(* the host client (bux/src/client.rs).                                    *)
(***************************************************************************)
EXTENDS Integers, Sequences, FiniteSets, TLC

\* ------------------------------------------------------------------------
\* Bounds of the model
\* ------------------------------------------------------------------------
\* number of VMs ever spawned
MaxVms == 2
\* number of VmHandle values alive at the same time
MaxHandles == 2
\* number of runtime operations and process events in one behaviour
MaxOps == 5

\* ------------------------------------------------------------------------
\* Runtime + registry: values
\* ------------------------------------------------------------------------
\* ids produced by gen_id, abstracted to words of two symbols; gen_id hands
\* them out in this order (two ids with a common prefix come first)
IdSeq == <<<<1, 1>>, <<1, 2>>, <<2, 1>>, <<2, 2>>>>
AllIds == {IdSeq[k] : k \in 1..Len(IdSeq)}
\* Option<String> name: None
NoName == <<0>>
\* names a caller may choose; <<1>> is also a prefix of ids
NameSet == {<<1>>, <<2, 1, 1>>}
\* strings passed to get/rename/remove as id_or_name
Keys == {<<1>>, <<1, 1>>, <<1, 2>>, <<2>>, <<2, 1, 1>>}
NoId == <<0>>

Status == {"Creating", "Running", "Paused", "Stopped"}

NoHandle == [id |-> NoId, status |-> "None", auto |-> FALSE]

VARIABLES
    \* host runtime and registry
    db,         \* StateDb table vms: id -> [name, status, auto_remove]
    socks,      \* ids whose socket file {id}.sock exists
    overlays,   \* ids whose overlay {id}.qcow2 exists
    proc,       \* id -> state of the process with that VM's pid
    handles,    \* slot -> VmHandle (cached state snapshot) or NoHandle
    spawned,    \* ids handed out by gen_id -> the auto_remove flag asked for
    reconciled, \* id -> outcome of the most recent liveness check by list/get
    last,       \* the operation performed by the last step and its result
    ops,        \* number of steps taken
    \* OCI image store
    images,       \* table images: reference -> manifest (its layer digests)
    image_layers, \* table image_layers: rows <<image_ref, layer_digest, position>>
    layers,       \* table layers: digest -> ref_count
    blobs,        \* digests whose layer file layers/{digest}.tar.gz exists
    rootfs,       \* manifests whose extracted rootfs directory exists
    slast,        \* the store operation performed by the last step
    \* one host <-> guest connection
    cop,        \* the client operation that opened the connection
    hpc,        \* position of the client operation
    gpc,        \* position of the guest's session task
    h2g,        \* frames in flight, host to guest
    g2h,        \* frames in flight, guest to host
    gsent,      \* every frame the guest has sent, in order
    hlog,       \* every frame the host has sent or accepted, in order
    hopen,      \* the host's end of the stream is open
    emode,      \* exec: "pipe" or "pty"
    edone,      \* exec: output streams that reached EOF
    child,      \* exec: the spawned child process
    etimeout,   \* exec: the request's timeout_ms > 0
    etimer,     \* exec: the timeout watcher task: "none", "armed", "fired"
    eflag,      \* exec: the shared timed_out flag
    ekilledby,  \* exec: whose SIGKILL ended the child: "none", "timer", "host_gone"
    eexit,      \* exec: the fields of the Exit frame sent
    gcode,      \* the ErrorCode of the HelloAck::Error the guest sent
    \* one byte stream carrying frames of the codec
    wire,       \* the bytes written and not yet read
    pending,    \* what each unread frame or upload on the wire was written from
    cdlast,     \* the codec call made by the last step and its result
    \* the guest's filesystem
    fs,         \* path -> node, for every path that exists
    flast,      \* the file transfer handled by the last step and its answer
    \* the guest's mounts and the control channel
    mtab,          \* the lines of /proc/mounts
    sbfrozen,      \* the superblocks that are frozen
    FROZEN_MOUNTS, \* the mount points frozen by the last Quiesce
    ctl,           \* the last control request, its count, and the one before
    \* the parent process, one shim and the watchdog pipe between them
    wparent,    \* the parent: its state, its platform, its BUX_WATCHDOG_FD
    pfds,       \* the parent's descriptor table: fd -> open file
    keepalive,  \* the Keepalive of the handle spawn returned
    shim,       \* the child: position, descriptors, environment, watchdog
    gets,       \* number of live handles obtained from Runtime::get
    \* the files of the image store's layers/ directory
    blobdata,   \* path -> bytes, for every file that exists
    \* the extraction of an image's layers
    rfs,        \* the filesystem the rootfs is made in: path -> node
    xlast,      \* the extraction made and its result
    \* the directory of the per-VM overlays
    vmsdir,     \* file name -> bytes, for every file that exists
    dlast,      \* the DiskManager call made by the last step and its result
    \* VmHandle::stop_timeout calls in progress
    stopcall,   \* slot -> the position of the handle's stop call
    \* one pipe-mode exec session and the bytes it carries
    pchild,     \* the child: its state and all it has written
    ppipe,      \* the bytes in the child's output pipes, not yet read
    pin,        \* host to guest: in flight, in the socket, in the recv future
    pguest,     \* handle_pipe: its position and the streams that are done
    pout,       \* guest to host: every byte the guest has sent
    \* the guest's temp files
    tmpfiles,   \* the temp files that exist under /tmp
    TEMP_SEQ,   \* the next sequence number of a temp file name
    tlast       \* the handler that finished last, its temp file and result

vmVars == <<db, socks, overlays, proc, handles, spawned, reconciled, last>>
storeVars == <<images, image_layers, layers, blobs, rootfs, slast>>
execVars == <<etimeout, etimer, eflag, ekilledby, eexit>>
connVars == <<cop, hpc, gpc, h2g, g2h, gsent, hlog, hopen, emode, edone, child,
              execVars, gcode>>

codecVars == <<wire, pending, cdlast>>
copyVars == <<fs, flast>>
controlVars == <<mtab, sbfrozen, FROZEN_MOUNTS, ctl>>
wdVars == <<wparent, pfds, keepalive, shim, gets>>
layerVars == <<blobdata>>
extractVars == <<rfs, xlast>>
diskVars == <<vmsdir, dlast>>
stopVars == <<stopcall>>
tempVars == <<tmpfiles, TEMP_SEQ, tlast>>
pipeVars == <<pchild, ppipe, pin, pguest, pout>>
moreVars == <<wdVars, layerVars, extractVars, diskVars, stopVars, pipeVars, tempVars>>
extVars == <<codecVars, copyVars, controlVars, moreVars>>

vars == <<vmVars, storeVars, connVars, extVars, ops>>

\* one bounded step of the runtime; the store and the connection stand still
VmTick == ops < MaxOps /\ ops' = ops + 1 /\ UNCHANGED <<storeVars, connVars, extVars>>

NoRet == [i \in {} |-> "Stopped"]

\* what a step did: the operation, its result, the record it resolved, the
\* statuses it returned, the outcome of the readiness race, the name it was
\* given (or removed) and whether its error message carries the console hint
Result(op, res, id, ret, ready) ==
    [op |-> op, res |-> res, id |-> id, ret |-> ret, ready |-> ready,
     name |-> NoName, hint |-> FALSE]

\* ------------------------------------------------------------------------
\* state.rs: StateDb
\* ------------------------------------------------------------------------
IsPrefix(p, s) == Len(p) <= Len(s) /\ SubSeq(s, 1, Len(p)) = p

\* SELECT * FROM vms WHERE name = ?1 (the ids of the matching rows)
get_by_name(d, name) == {i \in DOMAIN d : d[i].name = name}

\* characters of a key beside those of ids: the upper-case forms of 1 and 2,
\* and the two wildcards of LIKE
Upper == [A |-> 11, B |-> 12]
Wildcard == [percent |-> 8, underscore |-> 9]
\* LIKE compares ASCII letters without regard to case
fold(c) == IF c \in {Upper.A, Upper.B} THEN c - 10 ELSE c

\* the LIKE operator of SQLite: % matches any run of characters, _ any one
\* character, every other character itself up to case
RECURSIVE like(_, _)
like(pattern, s) ==
    IF pattern = <<>> THEN s = <<>>
    ELSE IF Head(pattern) = Wildcard.percent
         THEN like(Tail(pattern), s) \/ (s # <<>> /\ like(pattern, Tail(s)))
    ELSE IF s = <<>> THEN FALSE
    ELSE IF Head(pattern) = Wildcard.underscore \/ fold(Head(pattern)) = fold(Head(s))
         THEN like(Tail(pattern), Tail(s))
    ELSE FALSE

\* exact hit wins (id = ?1); otherwise id LIKE 'prefix%'
get_by_id_prefix(d, prefix) ==
    LET matches == {i \in DOMAIN d : like(Append(prefix, Wildcard.percent), i)}
    IN  IF prefix \in DOMAIN d THEN [res |-> "Ok", id |-> prefix]
        ELSE IF matches = {} THEN [res |-> "NotFound", id |-> NoId]
        ELSE IF Cardinality(matches) = 1
             THEN [res |-> "Ok", id |-> CHOOSE i \in matches : TRUE]
        ELSE [res |-> "Ambiguous", id |-> NoId]

\* the index declared without UNIQUE
NameNotUnique(d, id, name) == TRUE

\* name TEXT UNIQUE: may row id hold name without violating the index?
NameUniqueOk(d, id, name) ==
    name = NoName \/ \A j \in DOMAIN d : j = id \/ d[j].name # name

\* INSERT INTO vms ...: fails on a UNIQUE violation
insert(d, id, row) ==
    IF id \notin DOMAIN d /\ NameUniqueOk(d, id, row.name)
    THEN [res |-> "Ok", db |-> [j \in DOMAIN d \cup {id} |->
                                   IF j = id THEN row ELSE d[j]]]
    ELSE [res |-> "Db", db |-> d]

\* UPDATE vms SET status = ?1 WHERE id = ?2
update_status(d, id, status) ==
    [j \in DOMAIN d |-> IF j = id THEN [d[j] EXCEPT !.status = status] ELSE d[j]]

\* UPDATE vms SET name = ?1 WHERE id = ?2: fails on a UNIQUE violation
update_name(d, id, name) ==
    IF NameUniqueOk(d, id, name)
    THEN [res |-> "Ok", db |-> [j \in DOMAIN d |->
                 IF j = id THEN [d[j] EXCEPT !.name = name] ELSE d[j]]]
    ELSE [res |-> "Db", db |-> d]

\* a DELETE whose WHERE clause matches no row
delete_nothing(d, id) == d

\* DELETE FROM vms WHERE id = ?1
delete(d, id) == [j \in DOMAIN d \ {id} |-> d[j]]

\* ------------------------------------------------------------------------
\* runtime.rs: helpers
\* ------------------------------------------------------------------------
\* kill(pid, 0) == 0: the process exists (a stopped one and a zombie do)
is_pid_alive(i) == proc[i] \in {"run", "stopped", "zombie"}

\* the process after a SIGKILL: dead, unreaped
Killed(p) == IF p \in {"run", "stopped"} THEN "zombie" ELSE p

\* the process after a SIGSTOP and after a SIGCONT
Stopped(p) == IF p = "run" THEN "stopped" ELSE p
Continued(p) == IF p = "stopped" THEN "run" ELSE p

\* state::gen_id: a fresh id
gen_id == IdSeq[Cardinality(DOMAIN spawned) + 1]

FreeSlots == {h \in 1..MaxHandles : handles[h] = NoHandle}
FreeSlot == CHOOSE h \in FreeSlots : \A g \in FreeSlots : h <= g

\* the reconcile step of list and get: is the record demoted?
Demoted(d, i) == d[i].status \in {"Running", "Paused"} /\ ~is_pid_alive(i)

\* the liveness check is made only for Running and Paused records
Checked(d, i) == d[i].status \in {"Running", "Paused"}

Reconcile(d, ids) ==
    [i \in AllIds |->
        IF i \in ids /\ i \in DOMAIN d /\ Checked(d, i)
        THEN (IF is_pid_alive(i) THEN "alive" ELSE "dead")
        ELSE reconciled[i]]

\* Runtime::get, the lookup: by name first, then by id prefix
Lookup(d, key) ==
    LET byName == get_by_name(d, key)
    IN  IF byName # {}
        THEN [res |-> "Ok", id |-> CHOOSE i \in byName : TRUE]
        ELSE get_by_id_prefix(d, key)

\* Runtime::get up to the construction of the handle: the lookup, the
\* reconciled snapshot and the registry after update_status
GetState(key) ==
    LET found == Lookup(db, key)
    IN  IF found.res # "Ok"
        THEN [res |-> found.res, id |-> NoId, status |-> "None", db |-> db]
        ELSE IF Demoted(db, found.id)
             THEN [res |-> "Ok", id |-> found.id, status |-> "Stopped",
                   db |-> update_status(db, found.id, "Stopped")]
             ELSE [res |-> "Ok", id |-> found.id,
                   status |-> db[found.id].status, db |-> db]

\* wait_ready: the race of the handshake loop, the process monitor and the
\* timeout, by which of the three finishes first
wait_ready(ready, console) ==
    CASE ready = "ready"   -> [kind |-> "Ok", hint |-> FALSE]
      [] ready = "died"    -> [kind |-> "BrokenPipe", hint |-> console]
      [] ready = "timeout" -> [kind |-> "TimedOut", hint |-> FALSE]

\* Runtime::spawn's use of the readiness result: let _ = ...; Ok(handle)
SpawnReturn(wr) == [kind |-> "Ok", hint |-> FALSE]

\* ------------------------------------------------------------------------
\* runtime.rs: Runtime operations
\* ------------------------------------------------------------------------
Spawn(name, auto, base, console, outcome, ready) ==
  LET id  == gen_id
      row == [name |-> name, status |-> "Running", auto_remove |-> auto]
      ins == insert(db, id, row)
      ret == SpawnReturn(wait_ready(ready, console))
      new == [j \in DOMAIN spawned \cup {id} |-> IF j = id THEN auto ELSE spawned[j]]
  IN
    /\ VmTick
    /\ FreeSlots # {}
    /\ Cardinality(DOMAIN spawned) < MaxVms
    /\ IF name # NoName /\ get_by_name(db, name) # {}
       THEN /\ last' = [Result("spawn", "Ambiguous", NoId, NoRet, "none")
                           EXCEPT !.name = name]
            /\ UNCHANGED <<db, socks, overlays, proc, handles, spawned, reconciled>>
       ELSE IF outcome = "overlayFail"
       THEN /\ base
            /\ last' = [Result("spawn", "Io", NoId, NoRet, "none") EXCEPT !.name = name]
            /\ UNCHANGED <<db, socks, overlays, proc, handles, spawned, reconciled>>
       ELSE IF outcome = "jailFail"
       THEN /\ overlays' = IF base THEN overlays \cup {id} ELSE overlays
            /\ last' = [Result("spawn", "Io", id, NoRet, "none") EXCEPT !.name = name]
            /\ spawned' = new
            /\ UNCHANGED <<db, socks, proc, handles, reconciled>>
       ELSE IF ins.res # "Ok"
       THEN \* the shim runs, the row was refused: self.db.insert(&vm_state)?
            /\ outcome = "ok"
            /\ overlays' = IF base THEN overlays \cup {id} ELSE overlays
            /\ socks' = socks \cup {id}
            /\ proc' = [proc EXCEPT ![id] = "run"]
            /\ last' = [Result("spawn", "Db", id, NoRet, "none") EXCEPT !.name = name]
            /\ spawned' = new
            /\ UNCHANGED <<db, handles, reconciled>>
       ELSE /\ outcome = "ok"
            /\ overlays' = IF base THEN overlays \cup {id} ELSE overlays
            /\ socks' = socks \cup {id}
            /\ proc' = [proc EXCEPT ![id] = IF ready = "died" THEN "gone" ELSE "run"]
            /\ db' = ins.db
            /\ spawned' = new
            /\ handles' = [handles EXCEPT ![FreeSlot] =
                             [id |-> id, status |-> "Running", auto |-> auto]]
            /\ last' = [Result("spawn", ret.kind, id, NoRet, ready)
                           EXCEPT !.name = name, !.hint = ret.hint]
            /\ UNCHANGED reconciled

List ==
    LET st(i)  == IF Demoted(db, i) THEN "Stopped" ELSE db[i].status
        gone   == {i \in DOMAIN db : st(i) = "Stopped" /\ db[i].auto_remove}
        keep   == DOMAIN db \ gone
    IN  /\ VmTick
        /\ db' = [i \in keep |-> [db[i] EXCEPT !.status = st(i)]]
        /\ socks' = socks \ gone
        /\ reconciled' = Reconcile(db, DOMAIN db)
        /\ last' = Result("list", "Ok", NoId, [i \in keep |-> st(i)], "none")
        /\ UNCHANGED <<overlays, proc, handles, spawned>>

Get(key) ==
    LET g == GetState(key)
    IN  /\ VmTick
        /\ FreeSlots # {}
        /\ db' = g.db
        /\ reconciled' = Reconcile(db, {g.id})
        /\ handles' = IF g.res = "Ok"
                      THEN [handles EXCEPT ![FreeSlot] =
                              [id |-> g.id, status |-> g.status,
                               auto |-> db[g.id].auto_remove]]
                      ELSE handles
        /\ last' = Result("get", g.res, g.id,
                          IF g.res = "Ok" THEN [i \in {g.id} |-> g.status] ELSE NoRet,
                          "none")
        /\ UNCHANGED <<socks, overlays, proc, spawned>>

Rename(key, new_name) ==
    LET g   == GetState(key)
        ex  == get_by_name(g.db, new_name)
        upd == update_name(g.db, g.id, new_name)
    IN  /\ VmTick
        /\ reconciled' = Reconcile(db, {g.id})
        /\ IF g.res # "Ok"
           THEN /\ db' = g.db
                /\ last' = [Result("rename", g.res, NoId, NoRet, "none") EXCEPT !.name = new_name]
           ELSE IF ex # {} /\ (CHOOSE i \in ex : TRUE) # g.id
           THEN /\ db' = g.db
                /\ last' = [Result("rename", "Ambiguous", g.id, NoRet, "none") EXCEPT !.name = new_name]
           ELSE /\ db' = upd.db
                /\ last' = [Result("rename", upd.res, g.id, NoRet, "none") EXCEPT !.name = new_name]
        /\ UNCHANGED <<socks, overlays, proc, handles, spawned>>

Remove(key) ==
    LET g == GetState(key)
    IN  /\ VmTick
        /\ reconciled' = Reconcile(db, {g.id})
        /\ IF g.res # "Ok"
           THEN /\ db' = g.db
                /\ last' = Result("remove", g.res, NoId, NoRet, "none")
                /\ UNCHANGED <<socks, overlays>>
           ELSE IF g.status = "Running" /\ is_pid_alive(g.id)
           THEN /\ db' = g.db
                /\ last' = Result("remove", "InvalidInput", g.id, NoRet, "none")
                /\ UNCHANGED <<socks, overlays>>
           ELSE /\ socks' = socks \ {g.id}
                /\ overlays' = overlays \ {g.id}
                /\ db' = delete(g.db, g.id)
                /\ last' = [Result("remove", "Ok", g.id, NoRet, "none")
                              EXCEPT !.name = db[g.id].name]
        /\ UNCHANGED <<proc, handles, spawned>>

\* ------------------------------------------------------------------------
\* state.rs: the registry used directly (StateDb::insert, update_name, delete)
\* ------------------------------------------------------------------------
DbInsert(name) ==
    LET id  == gen_id
        ins == insert(db, id, [name |-> name, status |-> "Running",
                               auto_remove |-> FALSE])
    IN  /\ VmTick
        /\ Cardinality(DOMAIN spawned) < MaxVms
        /\ db' = ins.db
        /\ proc' = [proc EXCEPT ![id] = "run"]
        /\ spawned' = [j \in DOMAIN spawned \cup {id} |->
                         IF j = id THEN FALSE ELSE spawned[j]]
        /\ last' = [Result("insert", ins.res, id, NoRet, "none") EXCEPT !.name = name]
        /\ UNCHANGED <<socks, overlays, handles, reconciled>>

\* StateDb::insert of a record with an id the caller chose
DbInsertId(id) ==
    /\ VmTick
    /\ id \notin DOMAIN db
    /\ \E ins \in {insert(db, id, [name |-> NoName, status |-> "Stopped",
                                    auto_remove |-> FALSE])} :
           /\ db' = ins.db
           /\ last' = Result("insert", ins.res, id, NoRet, "none")
    /\ UNCHANGED <<socks, overlays, proc, handles, spawned, reconciled>>

\* StateDb::get_by_id_prefix(key)
DbGetByIdPrefix(key) ==
    /\ VmTick
    /\ \E r \in {get_by_id_prefix(db, key)} :
           last' = [op |-> "get_by_id_prefix", res |-> r.res, id |-> r.id,
                    key |-> key]
    /\ UNCHANGED <<db, socks, overlays, proc, handles, spawned, reconciled>>

DbUpdateName(id, name) ==
    LET upd == update_name(db, id, name)
    IN  /\ VmTick
        /\ id \in DOMAIN db
        /\ db' = upd.db
        /\ last' = [Result("update_name", upd.res, id, NoRet, "none")
                       EXCEPT !.name = name]
        /\ UNCHANGED <<socks, overlays, proc, handles, spawned, reconciled>>

DbDelete(id) ==
    /\ VmTick
    /\ id \in DOMAIN db
    /\ db' = delete(db, id)
    /\ last' = Result("delete", "Ok", id, NoRet, "none")
    /\ UNCHANGED <<socks, overlays, proc, handles, spawned, reconciled>>

\* ------------------------------------------------------------------------
\* runtime.rs: VmHandle verbs
\* ------------------------------------------------------------------------
\* a handle's stop call: not in progress, or where it stands
NoStop == [pc |-> "idle", shutdown |-> "none"]

\* the handle is not borrowed by a stop call in progress (&mut self)
Idle(h) == stopcall[h] = NoStop

\* one step of a stop call; everything outside the runtime stands still
StopStep(h, to) ==
    /\ stopcall' = [stopcall EXCEPT ![h] = to]
    /\ UNCHANGED <<storeVars, connVars, codecVars, copyVars, controlVars,
                   wdVars, layerVars, extractVars, diskVars, pipeVars, tempVars>>

StopInit == stopcall = [h \in 1..MaxHandles |-> NoStop]

\* mark_stopped: the cached status and the registry, socket and overlay
MarkStopped(h) ==
    LET id == handles[h].id
    IN  /\ handles' = [handles EXCEPT ![h].status = "Stopped"]
        /\ IF handles[h].auto
           THEN /\ socks' = socks \ {id}
                /\ overlays' = overlays \ {id}
                /\ db' = delete(db, id)
           ELSE /\ db' = update_status(db, id, "Stopped")
                /\ UNCHANGED <<socks, overlays>>

Pause(h) ==
    LET id == handles[h].id
    IN  /\ VmTick
        /\ handles[h] # NoHandle
        /\ Idle(h)
        /\ IF handles[h].status # "Running"
           THEN /\ last' = Result("pause", "InvalidInput", NoId, NoRet, "none")
                /\ UNCHANGED <<db, handles, proc>>
           ELSE /\ proc' = [proc EXCEPT ![id] = Stopped(@)]
                /\ handles' = [handles EXCEPT ![h].status = "Paused"]
                /\ db' = update_status(db, id, "Paused")
                /\ last' = Result("pause", "Ok", NoId, NoRet, "none")
        /\ UNCHANGED <<socks, overlays, spawned, reconciled>>

Resume(h) ==
    LET id == handles[h].id
    IN  /\ VmTick
        /\ handles[h] # NoHandle
        /\ Idle(h)
        /\ IF handles[h].status # "Paused"
           THEN /\ last' = Result("resume", "InvalidInput", NoId, NoRet, "none")
                /\ UNCHANGED <<db, handles, proc>>
           ELSE /\ proc' = [proc EXCEPT ![id] = Continued(@)]
                /\ handles' = [handles EXCEPT ![h].status = "Running"]
                /\ db' = update_status(db, id, "Running")
                /\ last' = Result("resume", "Ok", NoId, NoRet, "none")
        /\ UNCHANGED <<socks, overlays, spawned, reconciled>>

Kill(h) ==
    LET id == handles[h].id
    IN  /\ VmTick
        /\ handles[h] # NoHandle
        /\ Idle(h)
        /\ proc' = [proc EXCEPT ![id] = Killed(@)]
        /\ MarkStopped(h)
        /\ last' = Result("kill", "Ok", NoId, NoRet, "none")
        /\ UNCHANGED <<spawned, reconciled>>

\* stop_timeout is called: self.client.shutdown() sends ControlReq::Shutdown
StopCall(h) ==
    /\ ops < MaxOps
    /\ ops' = ops + 1
    /\ handles[h] # NoHandle
    /\ Idle(h)
    /\ StopStep(h, [pc |-> "shutdown", shutdown |-> "none"])
    /\ last' = Result("stop_call", "Ok", NoId, NoRet, "none")
    /\ UNCHANGED <<db, socks, overlays, proc, handles, spawned, reconciled>>

\* client.shutdown() returns, and its result is dropped: ShutdownOk from a
\* running guest, an error from the guest or from a socket nothing serves;
\* a process that is stopped by SIGSTOP holds the connection and never answers
ShutdownReturns(h, reply) ==
    LET id == handles[h].id
    IN  /\ stopcall[h].pc = "shutdown"
        /\ proc[id] # "stopped"
        /\ reply = "Ok" => proc[id] = "run"
        /\ StopStep(h, [pc |-> "wait", shutdown |-> reply])
        /\ last' = Result("shutdown", reply, NoId, NoRet, "none")
        /\ UNCHANGED <<db, socks, overlays, proc, handles, spawned, reconciled, ops>>

\* stop_timeout from the wait on: exited says whether wait_for_exit returned
\* within the timeout; if it did not, kill() sends SIGKILL
Stop(h, exited) ==
    LET id == handles[h].id
    IN  /\ stopcall[h].pc = "wait"
        /\ ~exited => is_pid_alive(id)
        /\ exited => proc[id] # "stopped"
        /\ proc' = [proc EXCEPT ![id] = IF exited THEN "gone" ELSE Killed(@)]
        /\ MarkStopped(h)
        /\ StopStep(h, NoStop)
        /\ last' = [op |-> "stop", res |-> "Ok", id |-> id, ret |-> NoRet,
                    ready |-> "none", name |-> NoName, hint |-> FALSE,
                    h |-> h, shutdown |-> stopcall[h].shutdown,
                    was |-> proc[id], sigkill |-> ~exited]
        /\ UNCHANGED <<spawned, reconciled, ops>>

\* wait: returns once the process has exited (wait_for_exit reaps it)
Wait(h) ==
    LET id == handles[h].id
    IN  /\ VmTick
        /\ handles[h] # NoHandle
        /\ Idle(h)
        /\ proc[id] \in {"zombie", "gone"}
        /\ proc' = [proc EXCEPT ![id] = "gone"]
        /\ MarkStopped(h)
        /\ last' = Result("wait", "Ok", NoId, NoRet, "none")
        /\ UNCHANGED <<spawned, reconciled>>

\* the handle goes out of scope
Drop(h) ==
    /\ VmTick
    /\ handles[h] # NoHandle
    /\ Idle(h)
    /\ handles' = [handles EXCEPT ![h] = NoHandle]
    /\ last' = Result("drop", "Ok", NoId, NoRet, "none")
    /\ UNCHANGED <<db, socks, overlays, proc, spawned, reconciled>>

\* the VM process exits by itself, or an exited process is reaped
ProcExit(id, reaped) ==
    /\ VmTick
    /\ proc[id] \in {"run", "zombie"}
    /\ proc[id] = "zombie" => reaped
    /\ proc' = [proc EXCEPT ![id] = IF reaped THEN "gone" ELSE "zombie"]
    /\ last' = Result("exit", "Ok", NoId, NoRet, "none")
    /\ UNCHANGED <<db, socks, overlays, handles, spawned, reconciled>>

VmInit ==
    /\ db = [i \in {} |-> [name |-> NoName, status |-> "Running", auto_remove |-> FALSE]]
    /\ socks = {}
    /\ overlays = {}
    /\ proc = [i \in AllIds |-> "none"]
    /\ handles = [h \in 1..MaxHandles |-> NoHandle]
    /\ spawned = [i \in {} |-> FALSE]
    /\ reconciled = [i \in AllIds |-> "none"]
    /\ last = Result("init", "Ok", NoId, NoRet, "none")


\* ------------------------------------------------------------------------
\* bux-oci: the image store (store.rs) and Oci::pull / Oci::remove (lib.rs)
\* ------------------------------------------------------------------------
\* distinct layer contents the registry serves
MaxLayers == 2
\* store operations in one behaviour
MaxStoreOps == 3
\* numbers of layers a manifest may list
ManifestLens == {1, 2}

Refs == {"a", "b"}
LayerDigests == 1..MaxLayers
\* a manifest is identified by its digest, which fixes its list of layers
Manifests == UNION {[1..n -> LayerDigests] : n \in ManifestLens}
LayersOf(m) == {m[k] : k \in 1..Len(m)}

\* one bounded step of the store; the runtime and the connection stand still
StoreTick ==
    ops < MaxStoreOps /\ ops' = ops + 1 /\ UNCHANGED <<vmVars, connVars, extVars>>

\* save_layer with ON CONFLICT DO NOTHING: the count of a known layer stays
save_layer_do_nothing(st, d) ==
    [blobs  |-> IF d \notin st.blobs THEN st.blobs \cup {d} ELSE st.blobs,
     layers |-> IF d \in DOMAIN st.layers
                THEN st.layers
                ELSE [x \in DOMAIN st.layers \cup {d} |->
                        IF x = d THEN 1 ELSE st.layers[x]]]

\* save_layer with its test inverted: the blob is written only if it exists
save_layer_inverted(st, d) ==
    [blobs  |-> st.blobs,
     layers |-> IF d \in DOMAIN st.layers
                THEN [st.layers EXCEPT ![d] = @ + 1]
                ELSE [x \in DOMAIN st.layers \cup {d} |->
                        IF x = d THEN 1 ELSE st.layers[x]]]

\* save_layer: write the blob unless the file exists, then
\* INSERT INTO layers ... ON CONFLICT(digest) DO UPDATE SET ref_count = ref_count + 1
save_layer(st, d) ==
    [blobs  |-> IF d \notin st.blobs THEN st.blobs \cup {d} ELSE st.blobs,
     layers |-> IF d \in DOMAIN st.layers
                THEN [st.layers EXCEPT ![d] = @ + 1]
                ELSE [x \in DOMAIN st.layers \cup {d} |->
                        IF x = d THEN 1 ELSE st.layers[x]]]

\* the bytes of the layers the registry serves: runs of one byte, of
\* different lengths
LayerData == {[k \in 1..n |-> 7] : n \in 0..(MaxLayers - 1)}
\* format!("sha256:{:x}", Sha256::digest(data)): a function of the bytes
\* with no collision among the layers served
Sha256(data) == Len(data) + 1
\* Store::layer_path: layers/{digest with - for :}.tar.gz
layer_path(digest) == <<"layers", digest, "tar", "gz">>
\* Path::with_extension: the last extension is replaced
with_extension(path, ext) == [path EXCEPT ![Len(path)] = ext]

\* the write a failing write_all leaves behind
Partial(data) == IF data = <<>> THEN <<>> ELSE SubSeq(data, 1, Len(data) - 1)

\* the files of the directory with one more, or with one replaced
WithFile(files, path, data) ==
    [q \in DOMAIN files \cup {path} |-> IF q = path THEN data ELSE files[q]]

\* atomic_write: create path.tmp, write, sync, rename over path; io names
\* the call that fails, if one does
atomic_write(files, path, data, io) ==
    LET tmp == with_extension(path, "tmp")
    IN  IF io = "write" THEN [ok |-> FALSE, files |-> WithFile(files, tmp, Partial(data))]
        ELSE IF io = "rename" THEN [ok |-> FALSE, files |-> WithFile(files, tmp, data)]
        ELSE [ok |-> TRUE,
              files |-> [q \in (DOMAIN files \cup {path}) \ {tmp} |->
                           IF q = path THEN data ELSE files[q]]]

NoSave == [data |-> <<>>, res |-> "none", digest |-> 0, path |-> <<>>, first |-> FALSE]

\* Store::save_layer(data, media_type) called directly; io names the call
\* that fails: "write" or "rename" inside atomic_write, "db" the INSERT
SaveLayer(data, io) ==
    LET digest == Sha256(data)
        path == layer_path(digest)
        exists == path \in DOMAIN blobdata
        first == digest \notin DOMAIN layers
    IN  /\ ops < MaxStoreOps
        /\ ops' = ops + 1
        /\ UNCHANGED <<vmVars, connVars, codecVars, copyVars, controlVars, wdVars,
                       extractVars, diskVars, stopVars, pipeVars, tempVars>>
        /\ io \in {"write", "rename"} => ~exists
        /\ \E w \in {IF exists THEN [ok |-> TRUE, files |-> blobdata]
                      ELSE atomic_write(blobdata, path, data, io)},
              st \in {save_layer([blobs |-> blobs, layers |-> layers], digest)} :
              /\ blobdata' = w.files
              /\ blobs' = IF w.ok THEN st.blobs ELSE blobs
              /\ layers' = IF w.ok /\ io # "db" THEN st.layers ELSE layers
              /\ slast' = [op |-> "save_layer",
                           res |-> IF ~w.ok THEN "Io" ELSE IF io = "db" THEN "Db" ELSE "Ok",
                           data |-> data, digest |-> digest, path |-> path,
                           first |-> first,
                           prev |-> IF slast.op = "save_layer"
                                    THEN [data |-> slast.data, res |-> slast.res,
                                          digest |-> slast.digest, path |-> slast.path,
                                          first |-> slast.first]
                                    ELSE NoSave]
        /\ UNCHANGED <<images, image_layers, rootfs>>

LayerInit == blobdata = [q \in {} |-> <<>>]

\* Oci::pull step 2: save_layer for each layer of the manifest, in order
RECURSIVE SaveLayers(_, _, _)
SaveLayers(st, m, k) ==
    IF k > Len(m) THEN st ELSE SaveLayers(save_layer(st, m[k]), m, k + 1)

\* image_layers.layer_digest REFERENCES layers(digest), foreign_keys=ON
FkHolds(il, ls) == \A p \in il : p[2] \in DOMAIN ls

\* upsert_image: replace the image row, clear its associations, then
\* INSERT OR IGNORE one association per listed layer; one transaction
\* PRIMARY KEY (image_ref, layer_digest): the row of that key, if there is one
Associated(il, ref, d) == \E p \in il : p[1] = ref /\ p[2] = d

\* for (pos, layer_digest) in layer_digests.iter().enumerate():
\* INSERT OR IGNORE INTO image_layers (image_ref, layer_digest, position)
RECURSIVE insert_associations(_, _, _, _)
insert_associations(il, ref, m, k) ==
    IF k > Len(m) THEN il
    ELSE insert_associations(
             IF Associated(il, ref, m[k]) THEN il
             ELSE il \cup {<<ref, m[k], k - 1>>},
             ref, m, k + 1)

upsert_image(imgs, il, ls, ref, m) ==
    LET newIl == insert_associations({p \in il : p[1] # ref}, ref, m, 1)
    IN  IF FkHolds(newIl, ls)
        THEN [res |-> "Ok",
              images |-> [r \in DOMAIN imgs \cup {ref} |->
                            IF r = ref THEN m ELSE imgs[r]],
              image_layers |-> newIl]
        ELSE [res |-> "Db", images |-> imgs, image_layers |-> il]

\* SELECT digest FROM layers WHERE ref_count <= 0
IsOrphan(rc) == rc <= 0

StoreResult(op, res, ref, refd) == [op |-> op, res |-> res, ref |-> ref, refd |-> refd]

\* Oci::pull: tarOk says whether the layer tarballs unpack
Pull(ref, m, tarOk) ==
    LET saved   == SaveLayers([blobs |-> blobs, layers |-> layers], m, 1)
        extract == m \notin DOMAIN rootfs
        unpacks == tarOk /\ LayersOf(m) \subseteq saved.blobs
        up      == upsert_image(images, image_layers, saved.layers, ref, m)
        dir(v)  == [x \in DOMAIN rootfs \cup {m} |-> IF x = m THEN v ELSE rootfs[x]]
    IN  /\ StoreTick
        /\ ~extract => tarOk
        /\ layers' = saved.layers
        /\ blobs' = saved.blobs
        /\ IF extract /\ ~unpacks
           THEN /\ rootfs' = dir("partial")
                /\ slast' = StoreResult("pull", "Io", ref, {})
                /\ UNCHANGED <<images, image_layers>>
           ELSE /\ rootfs' = IF extract THEN dir("complete") ELSE rootfs
                /\ images' = up.images
                /\ image_layers' = up.image_layers
                /\ slast' = StoreResult("pull", up.res, ref, LayersOf(m))

\* Store::remove_image
RemoveImage(ref) ==
    LET lds      == {p[2] : p \in {q \in image_layers : q[1] = ref}}
        dec      == [d \in DOMAIN layers |->
                       IF d \in lds THEN layers[d] - 1 ELSE layers[d]]
        il       == {p \in image_layers : p[1] # ref}
        orphans  == {d \in DOMAIN dec : IsOrphan(dec[d])}
        kept     == [d \in DOMAIN dec \ orphans |-> dec[d]]
    IN  /\ StoreTick
        /\ IF FkHolds(il, kept)
           THEN /\ images' = [r \in DOMAIN images \ {ref} |-> images[r]]
                /\ image_layers' = il
                /\ layers' = kept
                /\ blobs' = blobs \ orphans
                /\ rootfs' = IF ref \in DOMAIN images
                             THEN [x \in DOMAIN rootfs \ {images[ref]} |-> rootfs[x]]
                             ELSE rootfs
                /\ slast' = StoreResult("remove_image", "Ok", ref, lds)
           ELSE \* a DELETE FROM layers is refused: the transaction rolls
                \* back; files of orphans deleted before that stay deleted
                /\ \E gone \in SUBSET {d \in orphans : \A p \in il : p[2] # d} :
                      blobs' = blobs \ gone
                /\ slast' = StoreResult("remove_image", "Db", ref, lds)
                /\ UNCHANGED <<images, image_layers, layers, rootfs>>

StoreInit ==
    /\ images = [r \in {} |-> <<>>]
    /\ image_layers = {}
    /\ layers = [d \in {} |-> 0]
    /\ blobs = {}
    /\ rootfs = [m \in {} |-> "complete"]
    /\ slast = StoreResult("init", "Ok", "a", {})

\* ------------------------------------------------------------------------
\* One connection: the host client (client.rs) and the guest's session task
\* (server.rs, control.rs, files.rs, exec/mod.rs)
\* ------------------------------------------------------------------------
\* payload frames of one kind (chunks, output frames, requests) per connection
MaxChunks == 2

ClientOps == {"handshake", "control", "exec_pipe", "exec_pty",
              "read_file", "write_file", "copy_in", "copy_out"}
FileOps == {"read_file", "write_file", "copy_in", "copy_out"}

ExecHellos == {"Hello.Exec.pipe", "Hello.Exec.pty"}
DownloadHellos == {"Hello.FileRead", "Hello.CopyOut"}
UploadHellos == {"Hello.FileWrite", "Hello.CopyIn"}
Hellos == {"Hello.Control", "Hello.Control.v0"} \cup ExecHellos
              \cup DownloadHellos \cup UploadHellos
HelloAcks == {"HelloAck.Control", "HelloAck.ExecStarted", "HelloAck.Ready",
              "HelloAck.Error"}
ExecOutput == {"ExecOut.Stdout", "ExecOut.Stderr"}
Payload == {"Download.Chunk", "Download.Done", "Download.Error",
            "UploadResult.Ok", "UploadResult.Error", "ControlResp",
            "ExecOut.Stdout", "ExecOut.Stderr", "ExecOut.Exit"}

\* a step of the connection; the runtime and the store stand still
ConnTick == UNCHANGED <<vmVars, storeVars, extVars, ops>>

Count(log, S) == Cardinality({k \in 1..Len(log) : log[k] \in S})

\* the guest can write while the host has not dropped the stream
Writable == hopen # "closed"
\* a guest recv fails: nothing is in flight and the host's write half is closed
HostEof == h2g = <<>> /\ hopen # "open"

\* the Hello a client operation sends; sameVersion compares the two
\* PROTOCOL_VERSION constants of the host and guest builds
HelloOf(op, sameVersion) ==
    CASE op \in {"handshake", "control"} ->
             (IF sameVersion THEN "Hello.Control" ELSE "Hello.Control.v0")
      [] op = "exec_pipe"  -> "Hello.Exec.pipe"
      [] op = "exec_pty"   -> "Hello.Exec.pty"
      [] op = "read_file"  -> "Hello.FileRead"
      [] op = "write_file" -> "Hello.FileWrite"
      [] op = "copy_in"    -> "Hello.CopyIn"
      [] op = "copy_out"   -> "Hello.CopyOut"

\* the HelloAck a client operation waits for
ExpectedAck(op) ==
    CASE op \in {"handshake", "control"}   -> "HelloAck.Control"
      [] op \in {"exec_pipe", "exec_pty"}  -> "HelloAck.ExecStarted"
      [] op \in FileOps                    -> "HelloAck.Ready"

\* where a client operation goes once its HelloAck arrived
AfterAck(op) ==
    CASE op = "handshake"                   -> "done"
      [] op = "control"                     -> "control"
      [] op \in {"exec_pipe", "exec_pty"}  -> "streaming"
      [] op \in {"read_file", "copy_out"}  -> "downloading"
      [] op \in {"write_file", "copy_in"}  -> "uploading"

\* a session that accepts a control Hello of any version
SessionAckAnyVersion(hello, spawnOk) ==
    CASE hello \in {"Hello.Control", "Hello.Control.v0"} -> "HelloAck.Control"
      [] hello \in ExecHellos       ->
             (IF spawnOk THEN "HelloAck.ExecStarted" ELSE "HelloAck.Error")
      [] hello \in DownloadHellos \cup UploadHellos -> "HelloAck.Ready"

\* a session that answers the file Hellos like a control Hello
SessionAckAsControl(hello, spawnOk) ==
    CASE hello = "Hello.Control.v0" -> "HelloAck.Error"
      [] hello \in ExecHellos       ->
             (IF spawnOk THEN "HelloAck.ExecStarted" ELSE "HelloAck.Error")
      [] OTHER                      -> "HelloAck.Control"

\* session: the HelloAck sent for a Hello (spawnOk: the command spawned)
SessionAck(hello, spawnOk) ==
    CASE hello = "Hello.Control"    -> "HelloAck.Control"
      [] hello = "Hello.Control.v0" -> "HelloAck.Error"
      [] hello \in ExecHellos       ->
             (IF spawnOk THEN "HelloAck.ExecStarted" ELSE "HelloAck.Error")
      [] hello \in DownloadHellos \cup UploadHellos -> "HelloAck.Ready"

\* session / exec: the ErrorCode carried by a HelloAck::Error
\* (ErrorInfo::version_mismatch for a control Hello, ErrorCode::Internal
\* for a command that did not spawn)
SessionErrorCode(hello) ==
    IF hello \in ExecHellos THEN "Internal" ELSE "VersionMismatch"

\* session: the handler entered after the HelloAck
SessionNext(hello, spawnOk) ==
    CASE hello = "Hello.Control"    -> "control"
      [] hello = "Hello.Control.v0" -> "done"
      [] hello \in ExecHellos       -> (IF spawnOk THEN "exec_loop" ELSE "done")
      [] hello \in DownloadHellos   -> "download"
      [] hello \in UploadHellos     -> "upload"

\* bux_proto::send by the guest: the frame goes out if the stream is
\* writable, otherwise the handler returns the error
GuestSend(frame, next) ==
    IF Writable
    THEN /\ g2h' = Append(g2h, frame)
         /\ gsent' = Append(gsent, frame)
         /\ gpc' = next
    ELSE /\ gpc' = "done"
         /\ UNCHANGED <<g2h, gsent>>

\* bux_proto::send / recv by the client, recorded in order
HostLog(dir, frame) == hlog' = Append(hlog, <<dir, frame>>)

\* the client operation returns: its stream is dropped
HostReturn(pc) ==
    /\ hpc' = pc
    /\ hopen' = IF pc \in {"done", "failed"} THEN "closed" ELSE hopen

\* ---- guest -------------------------------------------------------------
\* server.rs session: recv the Hello, dispatch on it, send the HelloAck
Session(spawnOk) ==
    /\ ConnTick
    /\ gpc = "hello"
    /\ IF h2g = <<>>
       THEN /\ hopen # "open"
            /\ spawnOk
            /\ gpc' = "done"
            /\ UNCHANGED <<h2g, g2h, gsent, emode, edone, child, etimer, gcode>>
       ELSE LET hello == Head(h2g) IN
            /\ h2g' = Tail(h2g)
            /\ hello \in ExecHellos \/ spawnOk
            /\ IF hello \notin Hellos
               THEN /\ gpc' = "done"
                    /\ UNCHANGED <<g2h, gsent, emode, edone, child, etimer, gcode>>
               ELSE /\ GuestSend(SessionAck(hello, spawnOk),
                                 SessionNext(hello, spawnOk))
                    /\ gcode' = IF Writable /\ SessionAck(hello, spawnOk) = "HelloAck.Error"
                                THEN SessionErrorCode(hello) ELSE gcode
                    /\ IF hello \in ExecHellos /\ spawnOk
                       THEN /\ child' = "run"
                            /\ emode' = IF hello = "Hello.Exec.pty"
                                        THEN "pty" ELSE "pipe"
                            /\ edone' = {}
                            \* the watcher is spawned after ExecStarted went out
                            /\ etimer' = IF Writable /\ etimeout
                                         THEN "armed" ELSE etimer
                       ELSE UNCHANGED <<emode, edone, child, etimer>>
    /\ UNCHANGED <<cop, hpc, hlog, hopen, etimeout, eflag, ekilledby, eexit>>

\* control.rs handle: one request, one response; EOF ends the loop
ControlHandle ==
    /\ ConnTick
    /\ UNCHANGED <<execVars, gcode>>
    /\ gpc = "control"
    /\ IF h2g # <<>>
       THEN /\ h2g' = Tail(h2g)
            /\ GuestSend("ControlResp", "control")
       ELSE /\ hopen # "open"
            /\ gpc' = "done"
            /\ UNCHANGED <<h2g, g2h, gsent>>
    /\ UNCHANGED <<cop, hpc, hlog, hopen, emode, edone, child>>

\* files.rs handle_read / handle_copy_out: Download::Error when the source
\* cannot be opened or packed, else chunks and Done; abort: a read fails
HandleDownload(outcome) ==
    /\ ConnTick
    /\ UNCHANGED <<execVars, gcode>>
    /\ gpc = "download"
    /\ outcome = "error" => Count(gsent, {"Download.Chunk"}) = 0
    /\ outcome = "chunk" => Count(gsent, {"Download.Chunk"}) < MaxChunks
    /\ IF outcome = "abort"
       THEN /\ gpc' = "done"
            /\ UNCHANGED <<g2h, gsent>>
       ELSE GuestSend(CASE outcome = "chunk" -> "Download.Chunk"
                        [] outcome = "done"  -> "Download.Done"
                        [] outcome = "error" -> "Download.Error",
                      IF outcome = "chunk" THEN "download" ELSE "done")
    /\ UNCHANGED <<cop, hpc, h2g, hlog, hopen, emode, edone, child>>

\* files.rs handle_write / handle_copy_in: receive the upload, apply it,
\* answer with one UploadResult (ok: this step met no error)
HandleUpload(ok) ==
    /\ ConnTick
    /\ UNCHANGED <<execVars, gcode>>
    /\ gpc = "upload"
    /\ IF h2g # <<>>
       THEN LET f == Head(h2g) IN
            /\ h2g' = Tail(h2g)
            /\ IF f = "Upload.Chunk" /\ ok
               THEN /\ gpc' = "upload"
                    /\ UNCHANGED <<g2h, gsent>>
               ELSE GuestSend(IF f = "Upload.Done" /\ ok
                              THEN "UploadResult.Ok" ELSE "UploadResult.Error",
                              "done")
       ELSE /\ hopen # "open"
            /\ ~ok
            /\ GuestSend("UploadResult.Error", "done")
            /\ UNCHANGED h2g
    /\ UNCHANGED <<cop, hpc, hlog, hopen, emode, edone, child>>

\* exec loop: a frame from the host (stdin, signal, resize) produces no output
ExecHostMsg ==
    /\ ConnTick
    /\ UNCHANGED <<execVars, gcode>>
    /\ gpc = "exec_loop"
    /\ h2g # <<>>
    /\ h2g' = Tail(h2g)
    /\ UNCHANGED <<cop, hpc, gpc, g2h, gsent, hlog, hopen, emode, edone, child>>

\* exec loop: recv fails (host disconnected): SIGKILL the child, leave the loop
ExecHostGone ==
    /\ ConnTick
    /\ gpc = "exec_loop"
    /\ HostEof
    /\ child' = IF child = "run" THEN "killed" ELSE child
    /\ ekilledby' = IF child = "run" THEN "host_gone" ELSE ekilledby
    /\ gpc' = "exec_exit"
    /\ UNCHANGED <<cop, hpc, h2g, g2h, gsent, hlog, hopen, emode, edone>>
    /\ UNCHANGED <<etimeout, etimer, eflag, eexit, gcode>>

\* exec loop: a read of the child's stdout / stderr (pipe) or of the PTY
\* master (pty, carried as stdout) returns data or EOF
ExecRead(stream, eof) ==
    /\ ConnTick
    /\ UNCHANGED <<execVars, gcode>>
    /\ gpc = "exec_loop"
    /\ stream \notin edone
    /\ emode = "pty" => stream = "stdout"
    /\ IF eof
       THEN /\ edone' = edone \cup {stream}
            /\ gpc' = IF emode = "pty" \/ edone' = {"stdout", "stderr"}
                      THEN "exec_exit" ELSE "exec_loop"
            /\ UNCHANGED <<g2h, gsent>>
       ELSE /\ Count(gsent, ExecOutput) < MaxChunks
            /\ GuestSend(IF stream = "stdout" THEN "ExecOut.Stdout"
                         ELSE "ExecOut.Stderr", "exec_loop")
            /\ UNCHANGED edone
    /\ UNCHANGED <<cop, hpc, h2g, hlog, hopen, emode, child>>

\* ExecOut::Exit not sent; a sent one has signal <<>> (None) or <<9>>
NoExit == [sent |-> FALSE, code |-> 0, signal |-> <<>>, timed_out |-> FALSE]

\* send_exit (pipe): the fields of Exit from the ExitStatus of child.wait()
PipeExit(c, flag) ==
    [sent |-> TRUE,
     code |-> IF c = "killed" THEN -1 ELSE 0,
     signal |-> IF c = "killed" THEN <<9>> ELSE <<>>,
     timed_out |-> flag]

\* send_exit_by_pid (pty): the fields of Exit from the result of waitpid;
\* ~waitOk is ECHILD (the child was reaped already, SIGCHLD being SIG_IGN)
PtyExit(c, flag, waitOk) ==
    [sent |-> TRUE,
     code |-> 0,
     signal |-> IF waitOk /\ c = "killed" THEN <<9>> ELSE <<>>,
     timed_out |-> flag]

\* send_exit (pipe): child.wait().await? then Exit;
\* send_exit_by_pid (pty): every outcome of waitpid becomes an Exit
SendExit(waitOk) ==
    /\ ConnTick
    /\ gpc = "exec_exit"
    /\ child \in {"killed", "exited"}
    /\ IF emode = "pipe" /\ ~waitOk
       THEN /\ gpc' = "done"
            /\ UNCHANGED <<g2h, gsent, eexit>>
       ELSE /\ GuestSend("ExecOut.Exit", "done")
            /\ eexit' = IF ~Writable THEN eexit
                         ELSE IF emode = "pipe" THEN PipeExit(child, eflag)
                         ELSE PtyExit(child, eflag, waitOk)
    /\ UNCHANGED <<cop, hpc, h2g, hlog, hopen, emode, edone, child>>
    /\ UNCHANGED <<etimeout, etimer, eflag, ekilledby, gcode>>

\* the timeout watcher: after the sleep, set timed_out and SIGKILL the pid;
\* the task is detached and runs whatever the handler does meanwhile
TimerFire ==
    /\ ConnTick
    /\ etimer = "armed"
    /\ etimer' = "fired"
    /\ eflag' = TRUE
    /\ child' = IF child = "run" THEN "killed" ELSE child
    /\ ekilledby' = IF child = "run" THEN "timer" ELSE ekilledby
    /\ UNCHANGED <<cop, hpc, gpc, h2g, g2h, gsent, hlog, hopen, emode, edone>>
    /\ UNCHANGED <<etimeout, eexit, gcode>>

\* the command exits by itself
ChildExit ==
    /\ ConnTick
    /\ UNCHANGED <<execVars, gcode>>
    /\ child = "run"
    /\ child' = "exited"
    /\ UNCHANGED <<cop, hpc, gpc, h2g, g2h, gsent, hlog, hopen, emode, edone>>

\* ---- host client -------------------------------------------------------
\* connect_raw and the send of the operation's Hello (timeout: the
\* ExecStart it carries has timeout_ms > 0)
Connect(op, sameVersion, timeout) ==
    /\ ConnTick
    /\ cop = "none"
    /\ op \in {"handshake", "control"} \/ sameVersion
    /\ timeout => op \in {"exec_pipe", "exec_pty"}
    /\ etimeout' = timeout
    /\ UNCHANGED <<etimer, eflag, ekilledby, eexit, gcode>>
    /\ cop' = op
    /\ h2g' = Append(h2g, HelloOf(op, sameVersion))
    /\ HostLog("send", HelloOf(op, sameVersion))
    /\ hpc' = "hello_sent"
    /\ UNCHANGED <<gpc, g2h, gsent, hopen, emode, edone, child>>

\* a peer that connects and closes without a Hello
RawClose ==
    /\ ConnTick
    /\ UNCHANGED <<execVars, gcode>>
    /\ cop = "none"
    /\ cop' = "raw"
    /\ hpc' = "failed"
    /\ hopen' = "closed"
    /\ UNCHANGED <<gpc, h2g, g2h, gsent, hlog, emode, edone, child>>

\* handshake / open_control / exec / expect_ready: the recv of the HelloAck
RecvAck ==
    /\ ConnTick
    /\ UNCHANGED <<execVars, gcode>>
    /\ hpc = "hello_sent"
    /\ g2h # <<>>
    /\ g2h' = Tail(g2h)
    /\ HostLog("recv", Head(g2h))
    /\ HostReturn(IF Head(g2h) = ExpectedAck(cop) THEN AfterAck(cop) ELSE "failed")
    /\ UNCHANGED <<cop, gpc, h2g, gsent, emode, edone, child>>

\* a recv by the client fails: the guest closed the stream
HostEofRecv ==
    /\ ConnTick
    /\ UNCHANGED <<execVars, gcode>>
    /\ hpc \in {"hello_sent", "upload_sent", "downloading", "streaming",
                "control_wait"}
    /\ g2h = <<>>
    /\ gpc = "done"
    /\ HostReturn("failed")
    /\ UNCHANGED <<cop, gpc, h2g, g2h, gsent, hlog, emode, edone, child>>

\* send_upload: chunks, then Done
SendUpload(fin) ==
    /\ ConnTick
    /\ UNCHANGED <<execVars, gcode>>
    /\ hpc = "uploading"
    /\ ~fin => Count(hlog, {<<"send", "Upload.Chunk">>}) < MaxChunks
    /\ h2g' = Append(h2g, IF fin THEN "Upload.Done" ELSE "Upload.Chunk")
    /\ HostLog("send", IF fin THEN "Upload.Done" ELSE "Upload.Chunk")
    /\ hpc' = IF fin THEN "upload_sent" ELSE "uploading"
    /\ UNCHANGED <<cop, gpc, g2h, gsent, hopen, emode, edone, child>>

\* expect_upload_ok
RecvUploadResult ==
    /\ ConnTick
    /\ UNCHANGED <<execVars, gcode>>
    /\ hpc = "upload_sent"
    /\ g2h # <<>>
    /\ g2h' = Tail(g2h)
    /\ HostLog("recv", Head(g2h))
    /\ HostReturn(IF Head(g2h) = "UploadResult.Ok" THEN "done" ELSE "failed")
    /\ UNCHANGED <<cop, gpc, h2g, gsent, emode, edone, child>>

\* recv_download
RecvDownload ==
    /\ ConnTick
    /\ UNCHANGED <<execVars, gcode>>
    /\ hpc = "downloading"
    /\ g2h # <<>>
    /\ g2h' = Tail(g2h)
    /\ HostLog("recv", Head(g2h))
    /\ HostReturn(CASE Head(g2h) = "Download.Chunk" -> "downloading"
                    [] Head(g2h) = "Download.Done"  -> "done"
                    [] OTHER                        -> "failed")
    /\ UNCHANGED <<cop, gpc, h2g, gsent, emode, edone, child>>

\* ExecHandle: write an ExecIn frame, or drop the write half
ExecSend(close) ==
    /\ ConnTick
    /\ UNCHANGED <<execVars, gcode>>
    /\ hpc = "streaming"
    /\ hopen = "open"
    /\ IF close
       THEN /\ hopen' = "half"
            /\ UNCHANGED <<h2g, hlog>>
       ELSE /\ Count(hlog, {<<"send", "ExecIn">>}) < MaxChunks
            /\ h2g' = Append(h2g, "ExecIn")
            /\ HostLog("send", "ExecIn")
            /\ UNCHANGED hopen
    /\ UNCHANGED <<cop, hpc, gpc, g2h, gsent, emode, edone, child>>

\* ExecHandle: read an ExecOut frame; Exit ends the stream
ExecRecv ==
    /\ ConnTick
    /\ UNCHANGED <<execVars, gcode>>
    /\ hpc = "streaming"
    /\ g2h # <<>>
    /\ g2h' = Tail(g2h)
    /\ HostLog("recv", Head(g2h))
    /\ HostReturn(IF Head(g2h) = "ExecOut.Exit" THEN "done" ELSE "streaming")
    /\ UNCHANGED <<cop, gpc, h2g, gsent, emode, edone, child>>

\* a request on an open control connection (ping, shutdown, quiesce, thaw)
ControlRequest ==
    /\ ConnTick
    /\ UNCHANGED <<execVars, gcode>>
    /\ hpc = "control"
    /\ h2g' = Append(h2g, "ControlReq")
    /\ HostLog("send", "ControlReq")
    /\ hpc' = "control_wait"
    /\ UNCHANGED <<cop, gpc, g2h, gsent, hopen, emode, edone, child>>

\* its response; the stream is dropped after the last request
ControlResponse ==
    /\ ConnTick
    /\ UNCHANGED <<execVars, gcode>>
    /\ hpc = "control_wait"
    /\ g2h # <<>>
    /\ g2h' = Tail(g2h)
    /\ HostLog("recv", Head(g2h))
    /\ HostReturn(IF Count(hlog, {<<"send", "ControlReq">>}) < MaxChunks
                  THEN "control" ELSE "done")
    /\ UNCHANGED <<cop, gpc, h2g, gsent, emode, edone, child>>

\* the client's future is dropped, or the host process goes away
HostDrop ==
    /\ ConnTick
    /\ UNCHANGED <<execVars, gcode>>
    /\ hopen # "closed"
    /\ hpc \notin {"idle", "done", "failed"}
    /\ hopen' = "closed"
    /\ hpc' = "failed"
    /\ UNCHANGED <<cop, gpc, h2g, g2h, gsent, hlog, emode, edone, child>>

ConnInit ==
    /\ cop = "none"
    /\ hpc = "idle"
    /\ gpc = "hello"
    /\ h2g = <<>>
    /\ g2h = <<>>
    /\ gsent = <<>>
    /\ hlog = <<>>
    /\ hopen = "open"
    /\ emode = "none"
    /\ edone = {}
    /\ child = "none"
    /\ etimeout = FALSE
    /\ etimer = "none"
    /\ eflag = FALSE
    /\ ekilledby = "none"
    /\ eexit = NoExit
    /\ gcode = "none"

\* ------------------------------------------------------------------------
\* bux-proto: the wire format of the messages and the frame codec
\* ------------------------------------------------------------------------
\* messages one stream may hold unread
MaxPending == 2
\* codec calls per behaviour
MaxCodecOps == 3
\* chunk frames one upload may be split into
MaxFrames == 3

MAX_FRAME == 16 * 1024 * 1024
MAX_UPLOAD_BYTES == 512 * 1024 * 1024

\* A byte string (Vec<u8>, &[u8], String, the stream) is a sequence of runs
\* <<byte, count>> with count > 0 and no two neighbouring runs of one byte:
\* every byte string has one representation, whatever its length.
RECURSIVE BLen(_)
BLen(s) == IF s = <<>> THEN 0 ELSE s[1][2] + BLen(Tail(s))

Byte(b) == << <<b, 1>> >>

Run(b, n) == IF n = 0 THEN <<>> ELSE << <<b, n>> >>

BCat(s, t) ==
    IF s = <<>> THEN t
    ELSE IF t = <<>> THEN s
    ELSE IF s[Len(s)][1] = t[1][1]
         THEN SubSeq(s, 1, Len(s) - 1)
              \o << <<t[1][1], s[Len(s)][2] + t[1][2]>> >> \o Tail(t)
         ELSE s \o t

RECURSIVE BTake(_, _)
BTake(s, k) ==
    IF k = 0 \/ s = <<>> THEN <<>>
    ELSE IF s[1][2] <= k THEN <<s[1]>> \o BTake(Tail(s), k - s[1][2])
    ELSE << <<s[1][1], k>> >>

RECURSIVE BDrop(_, _)
BDrop(s, k) ==
    IF k = 0 \/ s = <<>> THEN s
    ELSE IF s[1][2] <= k THEN BDrop(Tail(s), k - s[1][2])
    ELSE << <<s[1][1], s[1][2] - k>> >> \o Tail(s)

\* the byte string of a literal sequence of bytes
RECURSIVE Lit(_)
Lit(q) == IF q = <<>> THEN <<>> ELSE BCat(Byte(q[1]), Lit(Tail(q)))

\* postcard: unsigned integers wider than a byte are LEB128 varints
RECURSIVE varint(_)
varint(n) ==
    IF n < 128 THEN Byte(n) ELSE BCat(Byte(128 + (n % 128)), varint(n \div 128))

Fail(s) == [ok |-> FALSE, val |-> <<>>, rest |-> s]

RECURSIVE take_varint(_, _, _)
take_varint(s, mul, acc) ==
    IF s = <<>> THEN Fail(s)
    ELSE LET b == s[1][1]
             rest == BDrop(s, 1)
         IN  IF b < 128
             THEN [ok |-> TRUE, val |-> acc + b * mul, rest |-> rest]
             ELSE take_varint(rest, mul * 128, acc + (b - 128) * mul)

\* postcard: signed integers are zigzag-encoded, then written as varints
zigzag(v) == IF v >= 0 THEN 2 * v ELSE -2 * v - 1

unzigzag(n) == IF n % 2 = 0 THEN n \div 2 ELSE -((n + 1) \div 2)

\* the shapes serde derives for the message types
U == <<"u">>
I == <<"i">>
Bool == <<"bool">>
Str == <<"bytes">>
Bytes == <<"bytes">>
Option(T) == <<"option", T>>
Vec(T) == <<"seq", T>>
Struct(fields) == <<"struct", fields>>
Enum(variants) == <<"enum", variants>>
Unit == Struct(<<>>)

\* postcard::to_allocvec: the payload of a value v of shape T.  A struct is
\* its fields in order, an enum its variant index and the variant's fields,
\* an Option a 0 or a 1 and the value, a Vec or String its length and items.
RECURSIVE serialize(_, _)
RECURSIVE serialize_fields(_, _, _)
RECURSIVE serialize_seq(_, _, _)
serialize(T, v) ==
    CASE T[1] = "u" -> varint(v)
      [] T[1] = "i" -> varint(zigzag(v))
      [] T[1] = "bool" -> Byte(IF v THEN 1 ELSE 0)
      [] T[1] = "bytes" -> BCat(varint(BLen(v)), v)
      [] T[1] = "option" ->
            IF Len(v) = 0 THEN Byte(0) ELSE BCat(Byte(1), serialize(T[2], v[1]))
      [] T[1] = "seq" -> BCat(varint(Len(v)), serialize_seq(T[2], v, 1))
      [] T[1] = "struct" -> serialize_fields(T[2], v, 1)
      [] T[1] = "enum" -> BCat(varint(v[1]), serialize(T[2][v[1] + 1], v[2]))

serialize_fields(Ts, v, i) ==
    IF i > Len(Ts) THEN <<>>
    ELSE BCat(serialize(Ts[i], v[i]), serialize_fields(Ts, v, i + 1))

serialize_seq(T, v, i) ==
    IF i > Len(v) THEN <<>>
    ELSE BCat(serialize(T, v[i]), serialize_seq(T, v, i + 1))

\* postcard::from_bytes: the value of shape T at the head of s, and the
\* bytes behind it
RECURSIVE deserialize(_, _)
RECURSIVE deserialize_fields(_, _, _, _)
RECURSIVE deserialize_seq(_, _, _, _)
deserialize(T, s) ==
    CASE T[1] = "u" -> take_varint(s, 1, 0)
      [] T[1] = "i" ->
            LET r == take_varint(s, 1, 0)
            IN  IF r.ok THEN [r EXCEPT !.val = unzigzag(r.val)] ELSE r
      [] T[1] = "bool" ->
            IF s = <<>> \/ s[1][1] > 1 THEN Fail(s)
            ELSE [ok |-> TRUE, val |-> s[1][1] = 1, rest |-> BDrop(s, 1)]
      [] T[1] = "bytes" ->
            LET r == take_varint(s, 1, 0)
            IN  IF ~r.ok THEN r
                ELSE IF BLen(r.rest) < r.val THEN Fail(s)
                ELSE [ok |-> TRUE, val |-> BTake(r.rest, r.val),
                      rest |-> BDrop(r.rest, r.val)]
      [] T[1] = "option" ->
            IF s = <<>> \/ s[1][1] > 1 THEN Fail(s)
            ELSE IF s[1][1] = 0
                 THEN [ok |-> TRUE, val |-> <<>>, rest |-> BDrop(s, 1)]
                 ELSE LET r == deserialize(T[2], BDrop(s, 1))
                      IN  IF r.ok THEN [r EXCEPT !.val = <<r.val>>] ELSE r
      [] T[1] = "seq" ->
            LET r == take_varint(s, 1, 0)
            IN  IF ~r.ok THEN r ELSE deserialize_seq(T[2], r.rest, r.val, <<>>)
      [] T[1] = "struct" -> deserialize_fields(T[2], s, 1, <<>>)
      [] T[1] = "enum" ->
            LET r == take_varint(s, 1, 0)
            IN  IF ~r.ok THEN r
                ELSE IF r.val >= Len(T[2]) THEN Fail(s)
                ELSE LET f == deserialize(T[2][r.val + 1], r.rest)
                     IN  IF f.ok THEN [f EXCEPT !.val = <<r.val, f.val>>] ELSE f

deserialize_fields(Ts, s, i, acc) ==
    IF i > Len(Ts) THEN [ok |-> TRUE, val |-> acc, rest |-> s]
    ELSE LET r == deserialize(Ts[i], s)
         IN  IF r.ok THEN deserialize_fields(Ts, r.rest, i + 1, Append(acc, r.val))
             ELSE r

deserialize_seq(T, s, n, acc) ==
    IF n = 0 THEN [ok |-> TRUE, val |-> acc, rest |-> s]
    ELSE LET r == deserialize(T, s)
         IN  IF r.ok THEN deserialize_seq(T, r.rest, n - 1, Append(acc, r.val))
             ELSE r

\* the message types, variants and fields in declaration order
ErrorCode == Enum(<<Unit, Unit, Unit, Unit, Unit, Unit, Unit>>)
ErrorInfo == Struct(<<ErrorCode, Str>>)
TtyConfig == Struct(<<U, U, U, U>>)
ExecStart ==
    Struct(<<Str, Vec(Str), Vec(Str), Option(Str), Option(U), Option(U), Bool,
             Option(TtyConfig), U>>)
Hello ==
    Enum(<<Struct(<<U>>), Struct(<<ExecStart>>), Struct(<<Str>>),
           Struct(<<Str, U>>), Struct(<<Str>>), Struct(<<Str, Bool>>)>>)
HelloAck == Enum(<<Struct(<<U>>), Struct(<<Str, I>>), Unit, Struct(<<ErrorInfo>>)>>)
ControlReq == Enum(<<Unit, Unit, Unit, Unit>>)
ControlResp ==
    Enum(<<Struct(<<Str, U>>), Unit, Struct(<<U>>), Struct(<<U>>),
           Struct(<<ErrorInfo>>)>>)
ExecIn == Enum(<<Struct(<<Bytes>>), Unit, Struct(<<I>>), Struct(<<TtyConfig>>)>>)
ExecOut ==
    Enum(<<Struct(<<Bytes>>), Struct(<<Bytes>>),
           Struct(<<I, Option(I), Bool, U, Str>>), Struct(<<ErrorInfo>>)>>)
Upload == Enum(<<Struct(<<Bytes>>), Unit>>)
UploadResult == Enum(<<Unit, Struct(<<ErrorInfo>>)>>)
Download == Enum(<<Struct(<<Bytes>>), Unit, Struct(<<ErrorInfo>>)>>)

\* codec.rs: a frame is the payload's length as 4 big-endian bytes, then
\* the payload
to_be_bytes(n) ==
    Lit(<<n \div 16777216, (n \div 65536) % 256, (n \div 256) % 256, n % 256>>)

BAt(s, i) == BTake(BDrop(s, i - 1), 1)[1][1]

from_be_bytes(h) ==
    BAt(h, 1) * 16777216 + BAt(h, 2) * 65536 + BAt(h, 3) * 256 + BAt(h, 4)

FrameTooLargeOrEqual(len) == len >= MAX_FRAME

FrameTooLarge(len) == len > MAX_FRAME

\* send: the stream s after writing v.  The one check send makes is that
\* the payload's length fits a u32, which it does for every payload below
\* 2^31 bytes.
send(T, v, s) ==
    LET payload == serialize(T, v)
        len == BLen(payload)
    IN  [res |-> "Ok", len |-> len,
         wire |-> BCat(s, BCat(to_be_bytes(len), payload))]

\* recv: the result of reading one frame of shape T from s, and the bytes
\* left unread.  read_exact on a stream that ends early is UnexpectedEof.
recv(T, s) ==
    IF BLen(s) < 4
    THEN [res |-> "Eof", val |-> <<>>, len |-> 0, rest |-> <<>>]
    ELSE LET len == from_be_bytes(BTake(s, 4))
             body == BDrop(s, 4)
         IN  IF FrameTooLarge(len)
             THEN [res |-> "TooLarge", val |-> <<>>, len |-> len, rest |-> body]
             ELSE IF BLen(body) < len
             THEN [res |-> "Eof", val |-> <<>>, len |-> len, rest |-> <<>>]
             ELSE LET d == deserialize(T, BTake(body, len))
                  IN  [res |-> IF d.ok THEN "Ok" ELSE "Invalid",
                       val |-> IF d.ok THEN d.val ELSE <<>>,
                       len |-> len, rest |-> BDrop(body, len)]

\* send_upload: data.chunks(chunk_size) as Upload::Chunk frames, then Done
RECURSIVE send_upload(_, _, _)
send_upload(s, data, chunk_size) ==
    IF data = <<>> THEN send(Upload, <<1, <<>>>>, s).wire
    ELSE send_upload(
             send(Upload, <<0, <<BTake(data, chunk_size)>>>>, s).wire,
             BDrop(data, chunk_size), chunk_size)

\* recv_upload: Chunk frames are appended to buf until Done; an error of
\* recv, or a buf longer than max_bytes, ends it
RECURSIVE recv_upload(_, _, _)
recv_upload(s, buf, max_bytes) ==
    LET r == recv(Upload, s)
    IN  IF r.res # "Ok" THEN [res |-> r.res, val |-> <<>>, rest |-> r.rest]
        ELSE IF r.val[1] = 1 THEN [res |-> "Ok", val |-> buf, rest |-> r.rest]
        ELSE LET ext == BCat(buf, r.val[2][1])
             IN  IF BLen(ext) > max_bytes
                 THEN [res |-> "UploadTooLarge", val |-> <<>>, rest |-> r.rest]
                 ELSE recv_upload(r.rest, ext, max_bytes)

\* sample values
S0 == <<>>
Sab == Lit(<<97, 98>>)
D3 == Lit(<<1, 2, 3>>)
DBig == Run(7, MAX_FRAME)
Tty == <<24, 80, 0, 0>>
Start == <<Sab, <<Sab, S0>>, <<>>, <<Sab>>, <<300>>, <<>>, TRUE, <<Tty>>, 70000>>
Err(code) == <<<<code, <<>>>>, Sab>>

\* one message of every variant of every type, and one ExecIn::Stdin of
\* 16 MiB, what ExecHandle::write_stdin sends for a buffer of that size
Messages ==
    << <<"Hello", Hello, <<0, <<5>>>> >>,
       <<"Hello", Hello, <<1, <<Start>>>> >>,
       <<"Hello", Hello, <<2, <<Sab>>>> >>,
       <<"Hello", Hello, <<3, <<Sab, 420>>>> >>,
       <<"Hello", Hello, <<4, <<S0>>>> >>,
       <<"Hello", Hello, <<5, <<Sab, FALSE>>>> >>,
       <<"HelloAck", HelloAck, <<0, <<5>>>> >>,
       <<"HelloAck", HelloAck, <<1, <<Sab, -3>>>> >>,
       <<"HelloAck", HelloAck, <<2, <<>>>> >>,
       <<"HelloAck", HelloAck, <<3, <<Err(0)>>>> >>,
       <<"ControlReq", ControlReq, <<0, <<>>>> >>,
       <<"ControlReq", ControlReq, <<1, <<>>>> >>,
       <<"ControlReq", ControlReq, <<2, <<>>>> >>,
       <<"ControlReq", ControlReq, <<3, <<>>>> >>,
       <<"ControlResp", ControlResp, <<0, <<Sab, 130>>>> >>,
       <<"ControlResp", ControlResp, <<1, <<>>>> >>,
       <<"ControlResp", ControlResp, <<2, <<2>>>> >>,
       <<"ControlResp", ControlResp, <<3, <<1>>>> >>,
       <<"ControlResp", ControlResp, <<4, <<Err(6)>>>> >>,
       <<"ExecIn", ExecIn, <<0, <<D3>>>> >>,
       <<"ExecIn", ExecIn, <<1, <<>>>> >>,
       <<"ExecIn", ExecIn, <<2, <<9>>>> >>,
       <<"ExecIn", ExecIn, <<3, <<Tty>>>> >>,
       <<"ExecOut", ExecOut, <<0, <<S0>>>> >>,
       <<"ExecOut", ExecOut, <<1, <<D3>>>> >>,
       <<"ExecOut", ExecOut, <<2, <<-1, <<9>>, TRUE, 0, S0>>>> >>,
       <<"ExecOut", ExecOut, <<3, <<Err(4)>>>> >>,
       <<"Upload", Upload, <<0, <<D3>>>> >>,
       <<"Upload", Upload, <<1, <<>>>> >>,
       <<"UploadResult", UploadResult, <<0, <<>>>> >>,
       <<"UploadResult", UploadResult, <<1, <<Err(5)>>>> >>,
       <<"Download", Download, <<0, <<D3>>>> >>,
       <<"Download", Download, <<1, <<>>>> >>,
       <<"Download", Download, <<2, <<Err(2)>>>> >>,
       <<"ExecIn", ExecIn, <<0, <<DBig>>>> >> >>

\* crafted frame headers: 16 MiB + 1, 16 MiB, 2, 2^31 - 1
Headers == {<<1, 0, 0, 1>>, <<1, 0, 0, 0>>, <<0, 0, 0, 2>>, <<127, 255, 255, 255>>}

Written(kind, k, data, c) == [kind |-> kind, k |-> k, data |-> data, c |-> c]

NoCall ==
    [op |-> "none", res |-> "Ok", val |-> <<>>, len |-> 0, read |-> 0,
     max |-> 0, from |-> Written("none", 0, <<>>, 0)]

\* a stream on which a call failed is dropped by its caller
Intact == cdlast.res = "Ok"

\* every unread byte was written by send or send_upload
Genuine ==
    /\ \A i \in 1..Len(pending) : pending[i].kind # "craft"
    /\ pending = <<>> => wire = <<>>

CodecTick ==
    /\ ops < MaxCodecOps
    /\ ops' = ops + 1
    /\ UNCHANGED <<vmVars, storeVars, connVars, copyVars, controlVars, moreVars>>

\* bux_proto::send of message k
CodecSend(k) ==
    /\ Intact
    /\ Genuine
    /\ Len(pending) < MaxPending
    /\ CodecTick
    /\ \E r \in {send(Messages[k][2], Messages[k][3], wire)},
          w \in {Written("msg", k, <<>>, 0)} :
           /\ wire' = r.wire
           /\ pending' = Append(pending, w)
           /\ cdlast' = [NoCall EXCEPT !.op = "send", !.res = r.res,
                                       !.len = r.len, !.from = w]

\* a peer that writes a header and n payload bytes of its own making
CodecCraft(hdr, n) ==
    /\ Intact
    /\ pending = <<>>
    /\ CodecTick
    /\ wire' = BCat(Lit(hdr), Run(0, n))
    /\ pending' = <<Written("craft", 0, Lit(hdr), n)>>
    /\ cdlast' = [NoCall EXCEPT !.op = "craft"]

\* bux_proto::recv of the type the reader expects next
CodecRecv ==
    /\ Intact
    /\ pending # <<>>
    /\ pending[1].kind \in {"msg", "craft"}
    /\ CodecTick
    /\ \E r \in {recv(IF pending[1].kind = "msg"
                         THEN Messages[pending[1].k][2] ELSE Upload, wire)} :
           /\ wire' = r.rest
           /\ pending' = Tail(pending)
           /\ cdlast' = [NoCall EXCEPT !.op = "recv", !.res = r.res,
                                       !.val = r.val, !.len = r.len,
                                       !.read = BLen(wire) - BLen(r.rest),
                                       !.from = pending[1]]

\* bux_proto::send_upload(data, chunk_size)
UploadSend(data, chunk_size) ==
    /\ Intact
    /\ Genuine
    /\ Len(pending) < MaxPending
    /\ chunk_size > 0
    /\ BLen(data) <= chunk_size * MaxFrames
    /\ CodecTick
    /\ LET w == Written("upload", 0, data, chunk_size)
       IN  /\ wire' = send_upload(wire, data, chunk_size)
           /\ pending' = Append(pending, w)
           /\ cdlast' = [NoCall EXCEPT !.op = "send_upload", !.from = w]

\* bux_proto::recv_upload(max_bytes)
UploadRecv(max_bytes) ==
    /\ Intact
    /\ pending # <<>>
    /\ pending[1].kind = "upload"
    /\ CodecTick
    /\ \E r \in {recv_upload(wire, <<>>, max_bytes)} :
           /\ wire' = r.rest
           /\ pending' = Tail(pending)
           /\ cdlast' = [NoCall EXCEPT !.op = "recv_upload", !.res = r.res,
                                       !.val = r.val, !.max = max_bytes,
                                       !.read = BLen(wire) - BLen(r.rest),
                                       !.from = pending[1]]

\* the caller drops a stream that failed, or that a crafted frame left
\* out of step, and opens a new one
CodecReset ==
    /\ ~(Intact /\ Genuine)
    /\ CodecTick
    /\ wire' = <<>>
    /\ pending' = <<>>
    /\ cdlast' = NoCall

CodecInit ==
    /\ wire = <<>>
    /\ pending = <<>>
    /\ cdlast = NoCall

\* ------------------------------------------------------------------------
\* bux-guest: file transfer into the guest (files.rs)
\* ------------------------------------------------------------------------
\* entries of one archive
MaxEntries == 2
\* file transfers per behaviour
MaxFileOps == 1
\* symbolic links followed while resolving one path
MaxLinks == 2

STREAM_CHUNK_SIZE == 1048576

\* A path is the sequence of its components below the root; in an archive
\* entry's path "/" is the root component and ".." the parent component.
\* The filesystem maps every existing path whose parent is a real directory
\* to its node: a directory, a file with its content, or a symbolic link.
\* Nodes carry their kind, link target and content; modes and owners are
\* left out.
Dir == [kind |-> "dir", to |-> <<>>, data |-> 0]
File(data) == [kind |-> "file", to |-> <<>>, data |-> data]
Symlink(to) == [kind |-> "link", to |-> to, data |-> 0]

Parent(p) == SubSeq(p, 1, Len(p) - 1)

starts_with(p, base) == Len(base) <= Len(p) /\ SubSeq(p, 1, Len(base)) = base

\* Path::join: an absolute path replaces the base
join(base, path) ==
    IF path # <<>> /\ path[1] = "/" THEN Tail(path) ELSE base \o path

NoPath == [ok |-> FALSE, path |-> <<>>]

\* Path::canonicalize: every component must exist, links are followed and
\* ".." steps to the parent of what was resolved so far
RECURSIVE resolve(_, _, _, _)
resolve(f, cur, rest, fuel) ==
    IF rest = <<>> THEN [ok |-> TRUE, path |-> cur]
    ELSE IF Head(rest) = ".."
    THEN resolve(f, IF cur = <<>> THEN cur ELSE Parent(cur), Tail(rest), fuel)
    ELSE LET p == Append(cur, Head(rest))
         IN  IF p \notin DOMAIN f THEN NoPath
             ELSE IF f[p].kind = "link"
             THEN IF fuel = 0 THEN NoPath
                  ELSE resolve(f, <<>>, f[p].to \o Tail(rest), fuel - 1)
             ELSE IF f[p].kind = "file" /\ Tail(rest) # <<>> THEN NoPath
             ELSE resolve(f, p, Tail(rest), fuel)

canonicalize(f, p) == resolve(f, <<>>, p, MaxLinks)

\* where the last component of p lives: links in the prefix are followed,
\* the last component is not
locate(f, p) ==
    LET r == canonicalize(f, Parent(p))
    IN  IF p = <<>> THEN [ok |-> TRUE, path |-> p]
        ELSE IF r.ok /\ r.path \in DOMAIN f /\ f[r.path].kind = "dir"
                  /\ p[Len(p)] # ".."
        THEN [ok |-> TRUE, path |-> Append(r.path, p[Len(p)])]
        ELSE NoPath

\* Path::symlink_metadata succeeds
lexists(f, p) == locate(f, p).ok /\ locate(f, p).path \in DOMAIN f

is_dir(f, p) ==
    LET r == canonicalize(f, p) IN r.ok /\ f[r.path].kind = "dir"

Done(f) == [ok |-> TRUE, fs |-> f, kind |-> "none"]
Failed(f, kind) == [ok |-> FALSE, fs |-> f, kind |-> kind]

put(f, p, node) == [q \in DOMAIN f \cup {p} |-> IF q = p THEN node ELSE f[q]]

\* std::fs::create_dir_all
RECURSIVE create_dir_all(_, _)
create_dir_all(f, p) ==
    LET mkdir(r) ==
            IF ~r.ok THEN r
            ELSE IF locate(r.fs, p).ok THEN Done(put(r.fs, locate(r.fs, p).path, Dir))
            ELSE Failed(r.fs, "NotFound")
    IN  IF is_dir(f, p) THEN Done(f)
        ELSE IF p = <<>> \/ lexists(f, p) THEN Failed(f, "AlreadyExists")
        ELSE mkdir(create_dir_all(f, Parent(p)))

\* a tar that validates nothing
validate_nothing(f, dst, p) == TRUE

\* tar: the canonical form of p must lie below the canonical form of dst
validate_inside_dst(f, dst, p) ==
    LET c == canonicalize(f, p)
        d == canonicalize(f, dst)
    IN  c.ok /\ d.ok /\ starts_with(c.path, d.path)

\* tar: the missing ancestors of dir are created from the outermost one,
\* each after its parent has been validated
RECURSIVE ensure_dir_created(_, _, _)
ensure_dir_created(f, dst, dir) ==
    LET create(r) ==
            IF ~r.ok THEN r
            ELSE IF ~validate_inside_dst(r.fs, dst, Parent(dir))
            THEN Failed(r.fs, "Other")
            ELSE create_dir_all(r.fs, dir)
    IN  IF lexists(f, dir) THEN Done(f)
        ELSE create(ensure_dir_created(f, dst, Parent(dir)))

\* tar: unpack writes the entry at file_dst; what is there, a link
\* included, is removed first and never written through
unpack(f, file_dst, entry) ==
    LET at == locate(f, file_dst)
    IN  IF ~at.ok THEN Failed(f, "NotFound")
        ELSE IF entry.kind = "dir"
        THEN IF at.path \notin DOMAIN f THEN Done(put(f, at.path, Dir))
             ELSE IF is_dir(f, file_dst) THEN Done(f)
             ELSE Failed(f, "AlreadyExists")
        ELSE IF at.path \in DOMAIN f /\ f[at.path].kind = "dir"
        THEN Failed(f, "Other")
        ELSE Done(put(f, at.path,
                      IF entry.kind = "link" THEN Symlink(entry.to) ELSE File(1)))

\* tar: the entry's path below dst without its root component
RECURSIVE file_dst_of(_, _)
file_dst_of(dst, path) ==
    IF path = <<>> THEN dst
    ELSE IF Head(path) = "/" THEN file_dst_of(dst, Tail(path))
    ELSE file_dst_of(Append(dst, Head(path)), Tail(path))

\* entry.unpack_in(dst): an entry with a ".." component is skipped; an
\* entry whose parent is not below dst is an error
unpack_in(f, dst, entry) ==
    LET file_dst == file_dst_of(dst, entry.path)
        write(dirs) ==
            IF ~dirs.ok THEN dirs
            ELSE IF ~validate_inside_dst(dirs.fs, dst, Parent(file_dst))
            THEN Failed(dirs.fs, "Other")
            ELSE unpack(dirs.fs, file_dst, entry)
    IN  IF \E i \in 1..Len(entry.path) : entry.path[i] = ".." THEN Done(f)
        ELSE IF file_dst = dst THEN Done(f)
        ELSE write(ensure_dir_created(f, dst, Parent(file_dst)))

\* handle_copy_in's own check of one entry: the parent of dest joined with
\* the entry's path, when it can be canonicalized, must lie below dest
TraversalBlocked(f, canonical_dest, path) ==
    LET target == join(canonical_dest, path)
        parent == IF target = <<>> THEN canonical_dest ELSE Parent(target)
        resolved == canonicalize(f, parent)
    IN  resolved.ok /\ ~starts_with(resolved.path, canonical_dest)

\* the loop over the archive's entries; the first error ends it
RECURSIVE unpack_entries(_, _, _)
unpack_entries(f, canonical_dest, entries) ==
    IF entries = <<>> THEN Done(f)
    ELSE IF TraversalBlocked(f, canonical_dest, Head(entries).path)
    THEN Failed(f, "PermissionDenied")
    ELSE LET next(r) ==
                 IF ~r.ok THEN r
                 ELSE unpack_entries(r.fs, canonical_dest, Tail(entries))
         IN  next(unpack_in(f, canonical_dest, Head(entries)))

\* recv_upload_to_writer on n chunks of chunk bytes: the total after each
\* chunk is compared with max_bytes, the first total above it is an error
recv_upload_to_writer(chunk, n, max_bytes) ==
    IF \E k \in 1..n : k * chunk > max_bytes
    THEN [ok |-> FALSE, total |-> 0]
    ELSE [ok |-> TRUE, total |-> n * chunk]

\* recv_upload_to_file: the upload goes to a temp file, which is removed
\* again when the upload fails
recv_upload_to_file(chunks) ==
    recv_upload_to_writer(STREAM_CHUNK_SIZE, chunks, MAX_UPLOAD_BYTES)

\* every error of handle_write and handle_copy_in is answered the same way
ErrorAnswer(kind) ==
    [res |-> "UploadResult.Error", code |-> "Internal", kind |-> kind]

OkAnswer == [res |-> "UploadResult.Ok", code |-> "none", kind |-> "none"]

\* handle_copy_in: the filesystem afterwards and the answer
handle_copy_in(f, dest, entries, chunks) ==
    LET answer(canonical_dest, r) ==
            [fs |-> r.fs, dest |-> canonical_dest,
             ans |-> IF r.ok THEN OkAnswer ELSE ErrorAnswer(r.kind)]
        extract(made, canonical_dest) ==
            IF ~made.ok
            THEN [fs |-> made.fs, dest |-> dest, ans |-> ErrorAnswer(made.kind)]
            ELSE IF ~canonical_dest.ok
            THEN [fs |-> made.fs, dest |-> dest, ans |-> ErrorAnswer("NotFound")]
            ELSE answer(canonical_dest.path,
                        unpack_entries(made.fs, canonical_dest.path, entries))
        unpacked(made) == extract(made, canonicalize(made.fs, dest))
    IN  IF ~recv_upload_to_file(chunks).ok
        THEN [fs |-> f, dest |-> dest, ans |-> ErrorAnswer("InvalidData")]
        ELSE unpacked(create_dir_all(f, dest))

\* handle_write: the temp file is copied to path, through a link if path
\* is one
handle_write(f, path, chunks) ==
    LET up == recv_upload_to_file(chunks)
        made == create_dir_all(f, Parent(path))
        at == canonicalize(made.fs, path)
        to == IF at.ok THEN at ELSE locate(made.fs, path)
    IN  IF ~up.ok THEN [fs |-> f, dest |-> path, ans |-> ErrorAnswer("InvalidData")]
        ELSE IF ~made.ok THEN [fs |-> made.fs, dest |-> path, ans |-> ErrorAnswer(made.kind)]
        ELSE IF ~to.ok \/ (to.path \in DOMAIN made.fs /\ made.fs[to.path].kind # "file")
        THEN [fs |-> made.fs, dest |-> path, ans |-> ErrorAnswer("Other")]
        ELSE [fs |-> put(made.fs, to.path, File(1)), dest |-> path, ans |-> OkAnswer]

\* the guest's filesystem at the start: /etc with a file, /d with a
\* directory and a file
FsInit ==
    (<<>> :> Dir) @@ (<<"etc">> :> Dir) @@ (<<"etc", "f">> :> File(0))
    @@ (<<"d">> :> Dir) @@ (<<"d", "sub">> :> Dir) @@ (<<"d", "f">> :> File(0))

Dests == {<<"d">>, <<"d", "sub">>, <<"d", "new">>}

LinkTargets == {<<"etc">>, <<"etc", "f">>}

EntryPaths ==
    {<<"..", "..", "etc", "evil">>, <<"..", "new", "evil">>, <<"/", "etc", "evil">>,
     <<"ln", "evil">>, <<"ln", "x", "evil">>, <<"ln">>, <<"sub", "g">>,
     <<"new", "g">>, <<"f">>}

Entries ==
    [path : EntryPaths, kind : {"file"}, to : {<<>>}]
    \cup [path : {<<"ln">>, <<"sub", "g">>}, kind : {"dir"}, to : {<<>>}]
    \cup [path : {<<"ln">>}, kind : {"link"}, to : LinkTargets]

Archives ==
    {<<>>} \cup {<<e>> : e \in Entries} \cup {<<e1, e2>> : e1 \in Entries, e2 \in Entries}

\* uploads of 1 MiB, of 512 MiB and of 513 MiB
Uploads == {1, 512, 513}

NoFileOp ==
    [op |-> "none", dest |-> <<>>, entries |-> 0, chunks |-> 0, ans |-> OkAnswer]

FileTick ==
    /\ ops < MaxFileOps
    /\ ops' = ops + 1
    /\ UNCHANGED <<vmVars, storeVars, connVars, codecVars, controlVars, moreVars>>

\* a process in the guest makes a link in /d
GuestSymlink(to) ==
    /\ ~lexists(fs, <<"d", "ln">>)
    /\ UNCHANGED <<vmVars, storeVars, connVars, codecVars, controlVars, moreVars, ops>>
    /\ fs' = put(fs, <<"d", "ln">>, Symlink(to))
    /\ flast' = [NoFileOp EXCEPT !.op = "symlink"]

\* Hello::CopyIn{dest} and the upload of an archive
CopyIn(dest, entries, chunks) ==
    /\ Len(entries) <= MaxEntries
    /\ chunks > 1 => Len(entries) <= 1
    /\ FileTick
    /\ \E r \in {handle_copy_in(fs, dest, entries, chunks)} :
           /\ fs' = r.fs
           /\ flast' = [op |-> "copy_in", dest |-> r.dest, entries |-> Len(entries),
                        chunks |-> chunks, ans |-> r.ans]

\* Hello::FileWrite{path} and the upload of its content
FileWrite(path, chunks) ==
    /\ FileTick
    /\ \E r \in {handle_write(fs, path, chunks)} :
           /\ fs' = r.fs
           /\ flast' = [op |-> "write", dest |-> r.dest, entries |-> 0,
                        chunks |-> chunks, ans |-> r.ans]

FileInit ==
    /\ fs = FsInit
    /\ flast = NoFileOp

\* ------------------------------------------------------------------------
\* bux-guest: Quiesce and Thaw (control.rs, mounts.rs)
\* ------------------------------------------------------------------------
\* lines of /proc/mounts
MaxMounts == 3
\* control requests per behaviour
MaxControlOps == 3

\* filesystems (superblocks) a mount point can belong to
Superblocks == {1, 2}

\* a line of /proc/mounts: the filesystem mounted there and what the loop
\* of freeze_filesystems sees of it: a virtual type, the option ro, a type
\* without freeze support, or a writable freezable filesystem
MountKinds == {"virtual", "ro", "nofreeze", "rw"}

\* ioctl(FIFREEZE) on mount m with the superblocks in frz frozen
FIFREEZE(m, frz) ==
    IF m.kind = "nofreeze" THEN [ret |-> "EOPNOTSUPP", frz |-> frz]
    ELSE IF m.sb \in frz THEN [ret |-> "EBUSY", frz |-> frz]
    ELSE [ret |-> "0", frz |-> frz \cup {m.sb}]

\* ioctl(FITHAW)
FITHAW(m, frz) ==
    IF m.kind = "nofreeze" THEN [ret |-> "EOPNOTSUPP", frz |-> frz]
    ELSE IF m.sb \in frz THEN [ret |-> "0", frz |-> frz \ {m.sb}]
    ELSE [ret |-> "EINVAL", frz |-> frz]

\* freeze_filesystems: the mount points pushed to the list, in order, and
\* the frozen superblocks afterwards
RECURSIVE freeze_filesystems(_, _, _)
freeze_filesystems(lines, frz, acc) ==
    IF lines = <<>> THEN [frozen |-> acc, frz |-> frz]
    ELSE LET m == Head(lines)
             r == FIFREEZE(m, frz)
         IN  IF m.kind \in {"virtual", "ro"}
             THEN freeze_filesystems(Tail(lines), frz, acc)
             ELSE freeze_filesystems(Tail(lines), r.frz,
                      IF r.ret \in {"0", "EBUSY"} THEN Append(acc, m) ELSE acc)

\* thaw_frozen: the number of FITHAW calls that returned 0
RECURSIVE thaw_frozen(_, _, _)
thaw_frozen(list, frz, thawed) ==
    IF list = <<>> THEN [thawed |-> thawed, frz |-> frz]
    ELSE LET r == FITHAW(Head(list), frz)
         IN  thaw_frozen(Tail(list), r.frz,
                         IF r.ret = "0" THEN thawed + 1 ELSE thawed)

\* control connections open at the same time
Conns == {"c1", "c2"}

NoControl ==
    [op |-> "none", count |-> 0, conn |-> "none",
     prev |-> "none", prev_count |-> 0, prev_conn |-> "none"]

ControlTick ==
    /\ ops < MaxControlOps
    /\ ops' = ops + 1
    /\ UNCHANGED <<vmVars, storeVars, connVars, codecVars, copyVars, moreVars>>

Answer(c, op, count) ==
    [op |-> op, count |-> count, conn |-> c,
     prev |-> ctl.op, prev_count |-> ctl.count, prev_conn |-> ctl.conn]

\* a clone of the list, which stays where it is
mem_clone(list) == [val |-> list, left |-> list]

\* std::mem::take(&mut *g): the list, and the empty Vec left in its place
mem_take(list) == [val |-> list, left |-> <<>>]

\* a filesystem is mounted in the guest
Mount(sb, kind) ==
    /\ Len(mtab) < MaxMounts
    /\ UNCHANGED <<vmVars, storeVars, connVars, codecVars, copyVars, moreVars, ops>>
    /\ mtab' = Append(mtab, [sb |-> sb, kind |-> kind])
    /\ ctl' = Answer("none", "mount", 0)
    /\ UNCHANGED <<sbfrozen, FROZEN_MOUNTS>>

\* ControlReq::Ping on connection c
Ping(c) ==
    /\ ControlTick
    /\ ctl' = Answer(c, "Ping", 0)
    /\ UNCHANGED <<mtab, sbfrozen, FROZEN_MOUNTS>>

\* ControlReq::Quiesce on connection c: the list replaces FROZEN_MOUNTS, the answer is
\* QuiesceOk with its length
Quiesce(c) ==
    /\ ControlTick
    /\ \E r \in {freeze_filesystems(mtab, sbfrozen, <<>>)} :
           /\ sbfrozen' = r.frz
           /\ FROZEN_MOUNTS' = r.frozen
           /\ ctl' = Answer(c, "Quiesce", Len(r.frozen))
    /\ UNCHANGED mtab

\* ControlReq::Thaw on connection c: FROZEN_MOUNTS is taken, the answer is ThawOk with the
\* count of thaw_frozen
Thaw(c) ==
    /\ ControlTick
    /\ \E t \in {mem_take(FROZEN_MOUNTS)} :
       \E r \in {thaw_frozen(t.val, sbfrozen, 0)} :
           /\ sbfrozen' = r.frz
           /\ FROZEN_MOUNTS' = t.left
           /\ ctl' = Answer(c, "Thaw", r.thawed)
    /\ UNCHANGED mtab

ControlInit ==
    /\ mtab = <<>>
    /\ sbfrozen = {}
    /\ FROZEN_MOUNTS = <<>>
    /\ ctl = NoControl

\* ------------------------------------------------------------------------
\* bux-oci: extraction of layers into a root (extract.rs)
\* ------------------------------------------------------------------------
\* entries of one layer
MaxTarEntries == 2

\* the file names that are whiteouts, and the names they hide
\* (file_name.strip_prefix(".wh."))
WhiteoutOf == [n \in {".wh.x", ".wh.a"} |-> IF n = ".wh.x" THEN "x" ELSE "a"]
OpaqueMarker == ".wh..wh..opq"

\* the paths at and below a real path
Subtree(f, real) == {q \in DOMAIN f : starts_with(q, real)}

Without(f, gone) == [q \in DOMAIN f \ gone |-> f[q]]

\* std::fs::remove_dir_all: a symbolic link is removed itself, a directory
\* with everything below it
remove_dir_all(f, p) ==
    LET at == locate(f, p)
    IN  IF ~at.ok \/ at.path \notin DOMAIN f THEN Failed(f, "NotFound")
        ELSE IF f[at.path].kind = "link" THEN Done(Without(f, {at.path}))
        ELSE IF f[at.path].kind = "dir" THEN Done(Without(f, Subtree(f, at.path)))
        ELSE Failed(f, "NotADirectory")

\* std::fs::remove_file: unlink of anything that is no directory
remove_file(f, p) ==
    LET at == locate(f, p)
    IN  IF ~at.ok \/ at.path \notin DOMAIN f THEN Failed(f, "NotFound")
        ELSE IF f[at.path].kind = "dir" THEN Failed(f, "IsADirectory")
        ELSE Done(Without(f, {at.path}))

\* clear_dir and the directory itself
clear_dir_and_dir(f, dir) == remove_dir_all(f, dir)

\* clear_dir: every entry of read_dir(dir) is removed, as a tree when
\* is_dir says so, as a file otherwise; the first error ends the loop
clear_dir(f, dir) ==
    LET d == canonicalize(f, dir)
        children == {q \in DOMAIN f : Len(q) = Len(d.path) + 1 /\ starts_with(q, d.path)}
    IN  IF ~d.ok THEN Failed(f, "NotFound")
        ELSE IF f[d.path].kind # "dir" THEN Failed(f, "NotADirectory")
        ELSE Done(Without(f, UNION {Subtree(f, c) : c \in children}))

\* the target of a whiteout taken below the root itself
whiteout_target_in_rootfs(root, parent, target_name) == Append(root, target_name)

\* rootfs.join(parent).join(target_name)
whiteout_target(root, parent, target_name) ==
    Append(join(root, parent), target_name)

\* apply_tar, one entry: an opaque marker clears its parent, a whiteout
\* removes what it names and ignores a failure, any other entry is unpacked
apply_entry(f, root, entry) ==
    LET rel == entry.path
        file_name == rel[Len(rel)]
        parent == Parent(rel)
    IN  IF rel = <<>> \/ file_name = ".." THEN Done(f)
        ELSE IF file_name = OpaqueMarker
        THEN IF canonicalize(f, join(root, parent)).ok
             THEN clear_dir(f, join(root, parent))
             ELSE Done(f)
        ELSE IF file_name \in DOMAIN WhiteoutOf
        THEN LET target == whiteout_target(root, parent, WhiteoutOf[file_name])
                 removed == IF is_dir(f, target) THEN remove_dir_all(f, target)
                            ELSE remove_file(f, target)
             IN  Done(removed.fs)
        ELSE unpack_in(f, root, entry)

\* apply_tar: the entries of one layer in the order of the tar stream; the
\* first error ends the extraction
RECURSIVE apply_tar(_, _, _)
apply_tar(f, root, entries) ==
    IF entries = <<>> THEN Done(f)
    ELSE LET next(r) == IF ~r.ok THEN r ELSE apply_tar(r.fs, root, Tail(entries))
         IN  next(apply_entry(f, root, Head(entries)))

\* extract_layer_files: create the root, then apply the layers in order
RECURSIVE apply_layers(_, _, _)
apply_layers(f, root, tars) ==
    IF tars = <<>> THEN Done(f)
    ELSE LET next(r) == IF ~r.ok THEN r ELSE apply_layers(r.fs, root, Tail(tars))
         IN  next(apply_tar(f, root, Head(tars)))

extract_layer_files(f, tars, root) ==
    LET made == create_dir_all(f, root)
    IN  IF ~made.ok THEN made ELSE apply_layers(made.fs, root, tars)

\* the directory the root is made in: empty
EmptyFs == [q \in {<<>>} |-> Dir]
\* the root of one manifest
Rootfs == <<"rootfs">>

TarEntry(path, kind, to) == [path |-> path, kind |-> kind, to |-> to]
\* what the lower layer of an image may hold
LowerEntries ==
    {TarEntry(<<"a", "x">>, "file", <<>>),
     TarEntry(<<"a", "x", "y">>, "file", <<>>),
     TarEntry(<<"a", "y">>, "file", <<>>),
     TarEntry(<<"b", "y">>, "file", <<>>),
     TarEntry(<<"a", "x">>, "link", <<"rootfs", "b">>)}
\* what the upper layer may hold
UpperEntries ==
    {TarEntry(<<"a", ".wh.x">>, "file", <<>>),
     TarEntry(<<"a", OpaqueMarker>>, "file", <<>>),
     TarEntry(<<".wh.a">>, "file", <<>>),
     TarEntry(<<"a", "x">>, "file", <<>>),
     TarEntry(<<"a", "z">>, "file", <<>>)}
TarsOf(S) == UNION {[1..n -> S] : n \in 0..MaxTarEntries}

NoExtract == [op |-> "none", res |-> "Ok", tars |-> <<>>]

\* extract_layer_files(tars, root) into a directory that does not exist
\* yet, once
ExtractLayerFiles(tars) ==
    /\ xlast.op = "none"
    /\ UNCHANGED <<vmVars, storeVars, connVars, codecVars, copyVars, controlVars,
                   wdVars, layerVars, diskVars, stopVars, pipeVars, tempVars, ops>>
    /\ \E r \in {extract_layer_files(EmptyFs, tars, Rootfs)} :
           /\ rfs' = r.fs
           /\ xlast' = [op |-> "extract_layer_files",
                        res |-> IF r.ok THEN "Ok" ELSE r.kind, tars |-> tars]

ExtractInit ==
    /\ rfs = EmptyFs
    /\ xlast = NoExtract

\* ------------------------------------------------------------------------
\* bux: per-VM overlays (disk.rs, DiskManager and mod qcow2)
\* ------------------------------------------------------------------------
\* DiskManager calls in one behaviour
MaxDiskOps == 3

CLUSTER_BITS == 16
CLUSTER_SIZE == 2^CLUSTER_BITS
REFCOUNT_ORDER == 4
HEADER_LENGTH == 104
\* MAGIC, VERSION, EXT_END: u32 values below 2^31
MAGIC == 1363560955
VERSION == 3
EXT_END == 0
\* EXT_BACKING_FMT = 0xE2792ACA as its two 16-bit halves
EXT_BACKING_FMT == [hi |-> 57977, lo |-> 10954]

\* u16::to_be_bytes
be16(n) == Lit(<<n \div 256, n % 256>>)
\* u64::to_be_bytes of a value below 2^31
be64(n) == BCat(Run(0, 4), to_be_bytes(n))

\* buf[offset..offset + len].copy_from_slice(bytes)
copy_from_slice(buf, offset, bytes) ==
    BCat(BCat(BTake(buf, offset), bytes), BDrop(buf, offset + BLen(bytes)))
\* &buf[offset..offset + len]
slice(buf, offset, len) == BTake(BDrop(buf, offset), len)

align8(n) == ((n + 7) \div 8) * 8

\* u64::div_ceil
div_ceil(a, b) == (a + b - 1) \div b

\* String::from_utf8_lossy on the bytes of a path: ASCII and well-formed
\* two-byte sequences stay, any other byte becomes U+FFFD (EF BF BD); the
\* lead bytes of longer sequences are not among the bytes modelled
RECURSIVE to_string_lossy(_)
to_string_lossy(q) ==
    IF q = <<>> THEN <<>>
    ELSE IF q[1] < 128 THEN <<q[1]>> \o to_string_lossy(Tail(q))
    ELSE IF q[1] \in 194..223 /\ Len(q) >= 2 /\ q[2] \in 128..191
    THEN <<q[1], q[2]>> \o to_string_lossy(Tail(Tail(q)))
    ELSE <<239, 191, 189>> \o to_string_lossy(Tail(q))

\* one write into the buffer
Write(offset, bytes) == [offset |-> offset, bytes |-> bytes]

\* the buffer after a list of writes, in order: the first half of the
\* list, then the second half
RECURSIVE apply_writes(_, _)
apply_writes(buf, ws) ==
    IF ws = <<>> THEN buf
    ELSE IF Len(ws) = 1 THEN copy_from_slice(buf, ws[1].offset, ws[1].bytes)
    ELSE LET half == Len(ws) \div 2
         IN  CHOOSE r \in {apply_writes(b, SubSeq(ws, half + 1, Len(ws))) :
                              b \in {apply_writes(buf, SubSeq(ws, 1, half))}} : TRUE

\* qcow2::create_overlay: the buffer written to the file
qcow2_image(backing_bytes, virtual_size) ==
    LET l1_offset == CLUSTER_SIZE
        rctable_offset == 2 * CLUSTER_SIZE
        rcblock_offset == 3 * CLUSTER_SIZE
        l2_coverage == (CLUSTER_SIZE \div 8) * CLUSTER_SIZE
        l1_entries == div_ceil(virtual_size, l2_coverage)
        total_size == 4 * CLUSTER_SIZE
        fmt == <<114, 97, 119>>
        off1 == HEADER_LENGTH
        off2 == off1 + 8 + align8(Len(fmt))
        backing_offset == off2 + 8
        rc_base == rcblock_offset
    IN  apply_writes(Run(0, total_size),
          <<Write(0, to_be_bytes(MAGIC)),
            Write(4, to_be_bytes(VERSION)),
            Write(16, to_be_bytes(Len(backing_bytes))),
            Write(20, to_be_bytes(CLUSTER_BITS)),
            Write(24, be64(virtual_size)),
            Write(32, to_be_bytes(0)),
            Write(36, to_be_bytes(l1_entries)),
            Write(40, be64(l1_offset)),
            Write(48, be64(rctable_offset)),
            Write(56, to_be_bytes(1)),
            Write(60, to_be_bytes(0)),
            Write(64, be64(0)),
            Write(72, be64(0)),
            Write(80, be64(0)),
            Write(88, be64(0)),
            Write(96, to_be_bytes(REFCOUNT_ORDER)),
            Write(100, to_be_bytes(HEADER_LENGTH)),
            Write(off1, BCat(be16(EXT_BACKING_FMT.hi), be16(EXT_BACKING_FMT.lo))),
            Write(off1 + 4, to_be_bytes(Len(fmt))),
            Write(off1 + 8, Lit(fmt)),
            Write(off2, to_be_bytes(EXT_END)),
            Write(off2 + 4, to_be_bytes(0)),
            Write(backing_offset, Lit(backing_bytes)),
            Write(8, be64(backing_offset)),
            Write(rctable_offset, be64(rcblock_offset)),
            Write(rc_base, be16(1)),
            Write(rc_base + 2, be16(1)),
            Write(rc_base + 4, be16(1)),
            Write(rc_base + 6, be16(1))>>)

\* the base images: the path a caller gives, what fs::canonicalize makes of
\* it (no file when empty) and the file's length
BaseFiles ==
    {[given |-> <<98>>, canonical |-> <<47, 100, 47, 98>>, len |-> 0],
     [given |-> <<47, 100, 47, 98>>, canonical |-> <<47, 100, 47, 98>>, len |-> 1073741825],
     [given |-> <<47, 108>>, canonical |-> <<47, 195, 169, 47, 255>>, len |-> 4096],
     [given |-> <<47, 110>>, canonical |-> <<>>, len |-> 0]}

VmIds == {"1", "2"}

\* DiskManager::vm_disk_path, and the temporary name beside it
vm_disk_path(vm_id) == <<vm_id, "qcow2">>
tmp_path(vm_id) == <<vm_id, "qcow2", "tmp">>

NoDisk == [op |-> "none", res |-> "Ok", vm_id |-> "", base |-> <<>>, len |-> 0]

DiskTick ==
    /\ ops < MaxDiskOps
    /\ ops' = ops + 1
    /\ UNCHANGED <<vmVars, storeVars, connVars, codecVars, copyVars, controlVars,
                   wdVars, layerVars, extractVars, stopVars, pipeVars, tempVars>>

\* DiskManager::create_overlay(base, vm_id); io names the call that fails:
\* "write" inside qcow2::create_overlay, "rename" after it
CreateOverlay(base, vm_id, io) ==
    /\ DiskTick
    /\ base.canonical = <<>> => io = "ok"
    /\ \E image \in {qcow2_image(to_string_lossy(base.canonical), base.len)} :
          /\ vmsdir' =
                IF base.canonical = <<>> THEN vmsdir
                ELSE IF io = "write"
                THEN WithFile(vmsdir, tmp_path(vm_id), BTake(image, HEADER_LENGTH))
                ELSE IF io = "rename"
                THEN WithFile(vmsdir, tmp_path(vm_id), image)
                ELSE [q \in (DOMAIN vmsdir \cup {vm_disk_path(vm_id)}) \ {tmp_path(vm_id)} |->
                        IF q = vm_disk_path(vm_id) THEN image ELSE vmsdir[q]]
          /\ dlast' = [op |-> "create_overlay",
                       res |-> IF base.canonical = <<>> THEN "NotFound"
                               ELSE IF io = "ok" THEN "Ok" ELSE "Io",
                       vm_id |-> vm_id, base |-> base.canonical, len |-> base.len]

\* DiskManager::remove_vm_disk
RemoveVmDisk(vm_id) ==
    /\ DiskTick
    /\ vmsdir' = [q \in DOMAIN vmsdir \ {vm_disk_path(vm_id)} |-> vmsdir[q]]
    /\ dlast' = [NoDisk EXCEPT !.op = "remove_vm_disk", !.vm_id = vm_id]

DiskInit ==
    /\ vmsdir = [q \in {} |-> <<>>]
    /\ dlast = NoDisk

\* ------------------------------------------------------------------------
\* Jail + watchdog: the parent, one shim, and the pipe between them
\* (bux/src/watchdog.rs, bux/src/jail/mod.rs, bux/src/jail/pre_exec.rs,
\* bux/src/bin/shim.rs, Runtime::spawn and Runtime::get)
\* ------------------------------------------------------------------------
\* largest descriptor number of a process
MaxFd == 5
\* handles obtained from Runtime::get alive at the same time
MaxGets == 2
\* the limit close_inherited_fds falls back to when sysconf gives none
OPEN_MAX == 1024

Fds == 0..MaxFd
\* BUX_WATCHDOG_FD is not in the environment: no descriptor number
Unset == 0 - 1

Closed == [end |-> "closed", cloexec |-> FALSE]
OpenFile(end, cloexec) == [end |-> end, cloexec |-> cloexec]
\* the table of a process that has its three standard streams only
StdFds == [f \in Fds |-> IF f <= 2 THEN OpenFile("std", FALSE) ELSE Closed]

HasFree(t) == \E f \in Fds : t[f] = Closed
\* the descriptor open() and pipe() hand out: the lowest one that is free
lowest_free(t) == CHOOSE f \in Fds : t[f] = Closed /\ \A g \in 0..(f - 1) : t[g] # Closed

\* watchdog::create: pipe(), then FD_CLOEXEC on the write end only
create(t) ==
    LET r == lowest_free(t)
        t1 == [t EXCEPT ![r] = OpenFile("r", FALSE)]
        w == lowest_free(t1)
    IN  [fds |-> [t1 EXCEPT ![w] = OpenFile("w", TRUE)], read_fd |-> r, write_fd |-> w]

\* pre_exec::close_inherited_fds: close_range(3, MAX), or when that fails
\* close(fd) for fd in 3..limit
close_inherited_fds(t, close_range_ok, limit) ==
    [f \in Fds |-> IF f >= 3 /\ (close_range_ok \/ f < limit) THEN Closed ELSE t[f]]

\* execve: descriptors with FD_CLOEXEC are closed, the others are kept
exec(t) == [f \in Fds |-> IF t[f].cloexec THEN Closed ELSE t[f]]

\* some process still has the write end of the pipe open
writers == \E f \in Fds : pfds[f].end = "w" \/ shim.fds[f].end = "w"

\* the revents poll(fd, events = 0, timeout = -1) can return with; the empty
\* set when the call blocks
revents(t, fd) ==
    IF fd \notin Fds \/ t[fd] = Closed THEN {"POLLNVAL"}
    ELSE IF t[fd].end = "r" THEN (IF writers THEN {} ELSE {"POLLHUP"})
    ELSE {}

NoShim ==
    [pc |-> "none", fds |-> [f \in Fds |-> Closed], env |-> Unset,
     pdeathsig |-> FALSE, wd |-> "none", wfd |-> Unset, cause |-> "none"]

NoKeepalive == [state |-> "none", fd |-> Unset]

WdTick ==
    UNCHANGED <<vmVars, storeVars, connVars, codecVars, copyVars, controlVars,
                layerVars, extractVars, diskVars, stopVars, pipeVars, tempVars, ops>>

\* the process that uses the runtime starts: its platform, its environment
\* and the descriptors it has open beside the standard ones
ParentStart(linux, env, own) ==
    /\ wparent.state = "none"
    /\ WdTick
    /\ wparent' = [state |-> "alive", linux |-> linux, env |-> env, shim_wd_fd |-> Unset]
    /\ pfds' = IF own THEN [StdFds EXCEPT ![3] = OpenFile("file", FALSE)] ELSE StdFds
    /\ UNCHANGED <<keepalive, shim, gets>>

\* Runtime::spawn up to the fork inside Command::spawn: the pipe is made and
\* the child gets a copy of the parent's descriptors and of its environment
\* (jail::spawn and the wrappers add no variable), stdin from /dev/null
WdSpawn ==
    /\ wparent.state = "alive"
    /\ shim.pc = "none"
    /\ WdTick
    /\ \E c \in {create(pfds)} :
           /\ pfds' = c.fds
           /\ wparent' = [wparent EXCEPT !.shim_wd_fd = c.read_fd]
           /\ keepalive' = [state |-> "pending", fd |-> c.write_fd]
           /\ shim' = [NoShim EXCEPT !.pc = "forked", !.fds = c.fds,
                                     !.env = wparent.env]
    /\ UNCHANGED gets

\* the closure installed by pre_exec::apply, run in the child before exec
PreExec(close_range_ok) ==
    /\ shim.pc = "forked"
    /\ WdTick
    /\ shim' = [shim EXCEPT !.pc = "hardened",
                            !.pdeathsig = wparent.linux,
                            !.fds = close_inherited_fds(shim.fds, close_range_ok, OPEN_MAX)]
    /\ UNCHANGED <<wparent, pfds, keepalive, gets>>

\* the child executes the shim
Exec ==
    /\ shim.pc = "hardened"
    /\ WdTick
    /\ shim' = [shim EXCEPT !.pc = "started", !.fds = exec(shim.fds)]
    /\ UNCHANGED <<wparent, pfds, keepalive, gets>>

\* Runtime::spawn after Command::spawn returned: the parent drops its copy of
\* the read end and the handle takes the Keepalive
WdSpawnReturn ==
    /\ wparent.state = "alive"
    /\ keepalive.state = "pending"
    /\ shim.pc \in {"started", "running", "exited"}
    /\ WdTick
    /\ pfds' = [pfds EXCEPT ![wparent.shim_wd_fd] = Closed]
    /\ keepalive' = [keepalive EXCEPT !.state = "held"]
    /\ UNCHANGED <<wparent, shim, gets>>

\* shim.rs start_watchdog: no thread without the variable
start_watchdog ==
    /\ shim.pc = "started"
    /\ WdTick
    /\ shim' = IF shim.env = Unset
               THEN [shim EXCEPT !.pc = "running"]
               ELSE [shim EXCEPT !.pc = "running", !.wd = "polling", !.wfd = shim.env]
    /\ UNCHANGED <<wparent, pfds, keepalive, gets>>

\* one return of poll in wait_for_parent_death: POLLHUP ends the loop and
\* the thread calls exit(0); anything else polls again
wait_for_parent_death ==
    /\ shim.pc = "running"
    /\ shim.wd \in {"polling", "spinning"}
    /\ WdTick
    /\ \E ev \in revents(shim.fds, shim.wfd) :
           shim' = IF ev = "POLLHUP"
                   THEN [shim EXCEPT !.pc = "exited", !.wd = "returned",
                                     !.cause = "watchdog"]
                   ELSE [shim EXCEPT !.wd = "spinning"]
    /\ UNCHANGED <<wparent, pfds, keepalive, gets>>

\* shim.rs main after start_watchdog: the running shim opens a file of its
\* own (the configuration it was given)
ShimOpen ==
    /\ shim.pc = "running"
    /\ \A f \in Fds : shim.fds[f].end # "file"
    /\ WdTick
    /\ shim' = [shim EXCEPT !.fds[lowest_free(shim.fds)] = OpenFile("file", TRUE)]
    /\ UNCHANGED <<wparent, pfds, keepalive, gets>>

\* the VM ends by itself
ShimExit ==
    /\ shim.pc = "running"
    /\ WdTick
    /\ shim' = [shim EXCEPT !.pc = "exited", !.cause = "vm",
                            !.fds = [f \in Fds |-> Closed]]
    /\ UNCHANGED <<wparent, pfds, keepalive, gets>>

\* the handle spawn returned is dropped: Keepalive closes its OwnedFd
DropHandle ==
    /\ wparent.state = "alive"
    /\ keepalive.state = "held"
    /\ WdTick
    /\ pfds' = [pfds EXCEPT ![keepalive.fd] = Closed]
    /\ keepalive' = [keepalive EXCEPT !.state = "dropped"]
    /\ UNCHANGED <<wparent, shim, gets>>

\* the parent exits: its descriptors are closed; a child that asked for
\* PR_SET_PDEATHSIG(SIGKILL) is killed
ParentExit ==
    /\ wparent.state = "alive"
    /\ WdTick
    /\ wparent' = [wparent EXCEPT !.state = "exited"]
    /\ pfds' = [f \in Fds |-> Closed]
    /\ shim' = IF shim.pdeathsig /\ shim.pc \notin {"none", "exited"}
               THEN [shim EXCEPT !.pc = "exited", !.cause = "pdeathsig",
                                 !.fds = [f \in Fds |-> Closed]]
               ELSE shim
    /\ UNCHANGED <<keepalive, gets>>

\* Runtime::get: a handle with no Keepalive
WdGet ==
    /\ wparent.state = "alive"
    /\ shim.pc # "none"
    /\ gets < MaxGets
    /\ WdTick
    /\ gets' = gets + 1
    /\ UNCHANGED <<wparent, pfds, keepalive, shim>>

\* a handle obtained from Runtime::get is dropped
DropGet ==
    /\ wparent.state = "alive"
    /\ gets > 0
    /\ WdTick
    /\ gets' = gets - 1
    /\ UNCHANGED <<wparent, pfds, keepalive, shim>>

WdInit ==
    /\ wparent = [state |-> "none", linux |-> FALSE, env |-> Unset, shim_wd_fd |-> Unset]
    /\ pfds = [f \in Fds |-> Closed]
    /\ keepalive = NoKeepalive
    /\ shim = NoShim
    /\ gets = 0

\* ------------------------------------------------------------------------
\* Specifications
\* ------------------------------------------------------------------------
\* ------------------------------------------------------------------------
\* bux-guest: a pipe-mode exec session with its data (exec/mod.rs), and
\* ExecHandle::wait_with_output (client.rs)
\* ------------------------------------------------------------------------
\* writes the child makes to its stdout and stderr
MaxOut == 2
\* ExecIn frames the host sends
MaxStdin == 1
\* let mut stdout_buf = [0u8; 4096]
BUF_LEN == 4096

Streams == {"stdout", "stderr"}
\* what the child may write at once, and what the host may hand to write_stdin
ChildData == {Lit(<<1>>), Run(3, BUF_LEN + 1)}
StdinData == {Lit(<<1>>), Run(127, 8)}
\* sizes of the pieces in which the host's bytes reach the guest
Segments == {6}

\* ExecOut::Stdout / Stderr / Exit as values of the wire format
OutFrame(stream, data) == <<IF stream = "stdout" THEN 0 ELSE 1, <<data>>>>
ExitFrame(state) ==
    <<2, <<IF state = "killed" THEN 0 - 1 ELSE 0,
           IF state = "killed" THEN <<9>> ELSE <<>>, FALSE, 0, S0>>>>

\* wait_with_output: Stdout and Stderr frames are appended to the two
\* buffers until Exit; an error of recv or an ExecOut::Error ends it
RECURSIVE collect_output(_, _, _)
collect_output(s, out, err) ==
    LET r == recv(ExecOut, s)
    IN  IF r.res # "Ok"
        THEN [res |-> r.res, stdout |-> out, stderr |-> err]
        ELSE IF r.val[1] = 0
        THEN collect_output(r.rest, BCat(out, r.val[2][1]), err)
        ELSE IF r.val[1] = 1
        THEN collect_output(r.rest, out, BCat(err, r.val[2][1]))
        ELSE IF r.val[1] = 2
        THEN [res |-> "Ok", stdout |-> out, stderr |-> err]
        ELSE [res |-> "Error", stdout |-> out, stderr |-> err]

wait_with_output(s) == collect_output(s, <<>>, <<>>)

PipeTick ==
    UNCHANGED <<vmVars, storeVars, connVars, codecVars, copyVars, controlVars,
                wdVars, layerVars, extractVars, diskVars, stopVars, tempVars, ops>>

\* handle_pipe up to the loop: the child is spawned, ExecStarted is sent
PipeStart ==
    /\ PipeTick
    /\ pguest.pc = "none"
    /\ pguest' = [pguest EXCEPT !.pc = "loop"]
    /\ pchild' = [pchild EXCEPT !.state = "run"]
    /\ UNCHANGED <<ppipe, pin, pout>>

\* the child writes to one of its output pipes
ChildWrite(stream, data) ==
    /\ PipeTick
    /\ pchild.state = "run"
    /\ pchild.writes < MaxOut
    /\ pchild' = [pchild EXCEPT !.writes = @ + 1,
                                !.out[stream] = BCat(@, data)]
    /\ ppipe' = [ppipe EXCEPT ![stream] = BCat(@, data)]
    /\ UNCHANGED <<pguest, pin, pout>>

\* the child exits by itself; the write ends of its pipes are closed
PipeChildExit ==
    /\ PipeTick
    /\ pchild.state = "run"
    /\ pchild' = [pchild EXCEPT !.state = "exited"]
    /\ UNCHANGED <<ppipe, pguest, pin, pout>>

\* ExecHandle::write_stdin(data): send(&ExecIn::Stdin(data.to_vec()))
WriteStdin(data) ==
    /\ PipeTick
    /\ pguest.pc # "none"
    /\ pin.conn
    /\ pin.sent < MaxStdin
    /\ pin' = [pin EXCEPT !.sent = @ + 1,
                          !.net = send(ExecIn, <<0, <<data>>>>, @).wire]
    /\ UNCHANGED <<pchild, ppipe, pguest, pout>>

\* the next k bytes the host wrote reach the guest's socket
Deliver(k) ==
    /\ PipeTick
    /\ pin.net # <<>>
    /\ k <= BLen(pin.net)
    /\ pin' = [pin EXCEPT !.net = BDrop(@, k),
                          !.sock = BCat(@, BTake(pin.net, k))]
    /\ UNCHANGED <<pchild, ppipe, pguest, pout>>

\* the host drops its ExecHandle
PipeHostDrop ==
    /\ PipeTick
    /\ pguest.pc # "none"
    /\ pin.conn
    /\ pin' = [pin EXCEPT !.conn = FALSE]
    /\ UNCHANGED <<pchild, ppipe, pguest, pout>>

\* select!: the recv future is polled and stays pending; read_exact has
\* taken the bytes that were there into the future's buffers
PollRecv ==
    /\ PipeTick
    /\ pguest.pc = "loop"
    /\ pin.sock # <<>>
    /\ recv(ExecIn, BCat(pin.rbuf, pin.sock)).res = "Eof"
    /\ pin' = [pin EXCEPT !.rbuf = BCat(@, pin.sock), !.sock = <<>>]
    /\ UNCHANGED <<pchild, ppipe, pguest, pout>>

\* kill(pid, sig)
Signalled(state, sig) == IF state = "run" /\ sig = 9 THEN "killed" ELSE state

\* select!: the recv arm completes, with a message or with an error (a
\* frame recv rejects, or end of stream once the host is gone)
RecvArm ==
    /\ PipeTick
    /\ pguest.pc = "loop"
    /\ \E r \in {recv(ExecIn, BCat(pin.rbuf, pin.sock))} :
          /\ r.res = "Eof" => ~pin.conn /\ pin.net = <<>>
          /\ IF r.res = "Ok"
             THEN /\ pin' = [pin EXCEPT !.rbuf = <<>>, !.sock = r.rest]
                  /\ pchild' = IF r.val[1] = 2
                               THEN [pchild EXCEPT
                                       !.state = Signalled(@, r.val[2][1])]
                               ELSE pchild
                  /\ UNCHANGED pguest
             ELSE /\ pin' = [pin EXCEPT !.rbuf = <<>>, !.sock = <<>>]
                  /\ pchild' = [pchild EXCEPT !.state = Signalled(@, 9)]
                  /\ pguest' = [pguest EXCEPT !.pc = "exit"]
    /\ UNCHANGED <<ppipe, pout>>

\* the loop's test: leave it once both output streams are done
AfterArm(done) == IF done = Streams THEN "exit" ELSE "loop"

\* select!: a read arm completes with data, which is sent as one frame, or
\* with end of file; the other arms' futures are dropped, and with the recv
\* future the bytes it had taken
ReadArm(stream) ==
    /\ PipeTick
    /\ pguest.pc = "loop"
    /\ stream \notin pguest.done
    /\ IF ppipe[stream] # <<>>
       THEN /\ ppipe' = [ppipe EXCEPT ![stream] = BDrop(@, BUF_LEN)]
            /\ IF pin.conn
               THEN /\ pout' = send(ExecOut,
                                   OutFrame(stream, BTake(ppipe[stream], BUF_LEN)),
                                   pout).wire
                    /\ UNCHANGED pguest
               ELSE /\ pguest' = [pguest EXCEPT !.pc = "failed"]
                    /\ UNCHANGED pout
       ELSE /\ pchild.state # "run"
            /\ pguest' = [pguest EXCEPT !.done = @ \cup {stream},
                                        !.pc = AfterArm(pguest.done \cup {stream})]
            /\ UNCHANGED <<ppipe, pout>>
    /\ pin' = [pin EXCEPT !.rbuf = <<>>]
    /\ UNCHANGED pchild

\* send_exit: child.wait().await?, then ExecOut::Exit
send_exit(waitOk) ==
    /\ PipeTick
    /\ pguest.pc = "exit"
    /\ pchild.state # "run"
    /\ IF waitOk /\ pin.conn
       THEN /\ pout' = send(ExecOut, ExitFrame(pchild.state), pout).wire
            /\ pguest' = [pguest EXCEPT !.pc = "done", !.exit_sent = TRUE]
       ELSE /\ pguest' = [pguest EXCEPT !.pc = "failed"]
            /\ UNCHANGED pout
    /\ pchild' = [pchild EXCEPT !.waited = waitOk]
    /\ UNCHANGED <<ppipe, pin>>

PipeInit ==
    /\ pchild = [state |-> "none", waited |-> FALSE, writes |-> 0,
                 out |-> [s \in Streams |-> <<>>]]
    /\ ppipe = [s \in Streams |-> <<>>]
    /\ pin = [conn |-> TRUE, sent |-> 0, net |-> <<>>, sock |-> <<>>, rbuf |-> <<>>]
    /\ pguest = [pc |-> "none", done |-> {}, exit_sent |-> FALSE]
    /\ pout = <<>>

PipeNext ==
    \/ PipeStart
    \/ \E stream \in Streams, data \in ChildData : ChildWrite(stream, data)
    \/ PipeChildExit
    \/ \E data \in StdinData : WriteStdin(data)
    \/ \E k \in Segments \cup {BLen(pin.net)} : Deliver(k)
    \/ PipeHostDrop
    \/ PollRecv
    \/ RecvArm
    \/ \E stream \in Streams : ReadArm(stream)
    \/ \E waitOk \in BOOLEAN : send_exit(waitOk)

\* ---------------------------------------------------------------------
\* The guest's temp files (bux-guest/src/files.rs)
\* ---------------------------------------------------------------------

\* the calls of the three handlers that can fail, "none" for none of them
UploadFaults == {"none", "create", "recv"}
WriteFaults == UploadFaults \cup {"create_dir_all", "copy", "set_permissions", "send"}
CopyInFaults == UploadFaults \cup {"unpack", "join", "send"}
CopyOutFaults == {"none", "create", "append", "join", "open", "send"}

\* requests for a file transfer that are handled
MaxTemps == 3

\* temp_file_path: /tmp/bux-<tag>-<pid>-<seq>, seq from TEMP_SEQ.fetch_add(1)
temp_file_path(tag, seq) == <<"tmp", tag, seq>>

\* tokio::fs::remove_file of a temp file, its result ignored
remove_temp(files, path) == files \ {path}

\* recv_upload_to_file: the temp file is created, the upload is written to
\* it; when the upload fails the temp file is removed and the error returned
upload_to_temp(files, seq, fault, chunks) ==
    LET temp_path == temp_file_path("upload", seq)
        created == files \cup {temp_path}
        up == recv_upload_to_file(chunks)
    IN  IF fault = "create"
        THEN [ok |-> FALSE, files |-> files, temp |-> temp_path, made |-> FALSE]
        ELSE IF fault = "recv" \/ ~up.ok
        THEN [ok |-> FALSE, files |-> remove_temp(created, temp_path),
              temp |-> temp_path, made |-> TRUE]
        ELSE [ok |-> TRUE, files |-> created, temp |-> temp_path, made |-> TRUE]

\* handle_write, as far as the temp file goes: the set of files afterwards,
\* what the handler returned and what it answered
write_temp(files, seq, fault, chunks) ==
    LET up == upload_to_temp(files, seq, fault, chunks)
        result == fault \notin {"create_dir_all", "copy", "set_permissions"}
        after == remove_temp(up.files, up.temp)
        sent == fault # "send"
    IN  IF ~up.ok
        THEN [files |-> up.files, temp |-> up.temp, made |-> up.made,
              ret |-> IF sent THEN "Ok" ELSE "Err", ans |-> "UploadResult.Error"]
        ELSE [files |-> after, temp |-> up.temp, made |-> TRUE,
              ret |-> IF sent THEN "Ok" ELSE "Err",
              ans |-> IF result THEN "UploadResult.Ok" ELSE "UploadResult.Error"]

\* handle_copy_in, as far as the temp file goes; the ? after the blocking
\* task returns before the temp file is removed
copy_in_temp(files, seq, fault, chunks) ==
    LET up == upload_to_temp(files, seq, fault, chunks)
        result == fault # "unpack"
        after == remove_temp(up.files, up.temp)
        sent == fault # "send"
    IN  IF ~up.ok
        THEN [files |-> up.files, temp |-> up.temp, made |-> up.made,
              ret |-> IF sent THEN "Ok" ELSE "Err", ans |-> "UploadResult.Error"]
        ELSE IF fault = "join"
        THEN [files |-> up.files, temp |-> up.temp, made |-> TRUE,
              ret |-> "Err", ans |-> "none"]
        ELSE [files |-> after, temp |-> up.temp, made |-> TRUE,
              ret |-> IF sent THEN "Ok" ELSE "Err",
              ans |-> IF result THEN "UploadResult.Ok" ELSE "UploadResult.Error"]

\* handle_copy_out: the archive is built in the temp file by a blocking
\* task, then opened and streamed; the ? after the task and the ? after the
\* open return before the temp file is removed
copy_out_temp(files, seq, fault) ==
    LET temp_path == temp_file_path("download", seq)
        made == fault # "create"
        built == IF made THEN files \cup {temp_path} ELSE files
        result == fault \notin {"create", "append"}
        after == remove_temp(built, temp_path)
    IN  IF fault = "join"
        THEN [files |-> built, temp |-> temp_path, made |-> made,
              ret |-> "Err", ans |-> "none"]
        ELSE IF ~result
        THEN [files |-> after, temp |-> temp_path, made |-> made,
              ret |-> "Ok", ans |-> "Download.Error"]
        ELSE IF fault = "open"
        THEN [files |-> built, temp |-> temp_path, made |-> made,
              ret |-> "Err", ans |-> "none"]
        ELSE [files |-> after, temp |-> temp_path, made |-> made,
              ret |-> IF fault = "send" THEN "Err" ELSE "Ok",
              ans |-> IF fault = "send" THEN "none" ELSE "Download.Done"]

TempTick ==
    /\ TEMP_SEQ < MaxTemps
    /\ TEMP_SEQ' = TEMP_SEQ + 1
    /\ UNCHANGED <<vmVars, storeVars, connVars, codecVars, copyVars, controlVars,
                   wdVars, layerVars, extractVars, diskVars, stopVars, pipeVars, ops>>

Finished(op, fault, chunks, r) ==
    /\ tmpfiles' = r.files
    /\ tlast' = [op |-> op, fault |-> fault, chunks |-> chunks, temp |-> r.temp,
                 made |-> r.made, ret |-> r.ret, ans |-> r.ans]

\* a FileWrite request handled from its first step to its return
TempWrite(fault, chunks) ==
    /\ TempTick
    /\ Finished("handle_write", fault, chunks,
                write_temp(tmpfiles, TEMP_SEQ, fault, chunks))

\* a CopyIn request handled from its first step to its return
TempCopyIn(fault, chunks) ==
    /\ TempTick
    /\ Finished("handle_copy_in", fault, chunks,
                copy_in_temp(tmpfiles, TEMP_SEQ, fault, chunks))

\* a CopyOut request handled from its first step to its return
TempCopyOut(fault) ==
    /\ TempTick
    /\ Finished("handle_copy_out", fault, 0,
                copy_out_temp(tmpfiles, TEMP_SEQ, fault))

NoTemp == [op |-> "none", fault |-> "none", chunks |-> 0, temp |-> <<>>,
           made |-> FALSE, ret |-> "none", ans |-> "none"]

TempInit == tmpfiles = {} /\ TEMP_SEQ = 0 /\ tlast = NoTemp

TempNext ==
    \/ \E fault \in WriteFaults, chunks \in Uploads : TempWrite(fault, chunks)
    \/ \E fault \in CopyInFaults, chunks \in Uploads : TempCopyIn(fault, chunks)
    \/ \E fault \in CopyOutFaults : TempCopyOut(fault)

MoreInit ==
    WdInit /\ LayerInit /\ ExtractInit /\ DiskInit /\ StopInit /\ PipeInit /\ TempInit

ExtInit == CodecInit /\ FileInit /\ ControlInit /\ MoreInit

Init == VmInit /\ ops = 0 /\ StoreInit /\ ConnInit /\ ExtInit

\* keys that are ids or id prefixes only
IdKeys == {<<1>>, <<1, 1>>, <<1, 2>>}

\* lifecycle of unnamed VMs through the runtime and any number of handles
LifeNext ==
    \/ \E auto \in BOOLEAN, base \in BOOLEAN :
          Spawn(NoName, auto, base, FALSE, "ok", "ready")
    \/ List
    \/ \E key \in IdKeys : Get(key)
    \/ \E h \in 1..MaxHandles : Pause(h)
    \/ \E h \in 1..MaxHandles : Resume(h)
    \/ \E h \in 1..MaxHandles : Kill(h)
    \/ \E h \in 1..MaxHandles : StopCall(h)
    \/ \E h \in 1..MaxHandles, reply \in {"Ok", "Err"} : ShutdownReturns(h, reply)
    \/ \E h \in 1..MaxHandles, exited \in BOOLEAN : Stop(h, exited)
    \/ \E h \in 1..MaxHandles : Wait(h)
    \/ \E h \in 1..MaxHandles : Drop(h)
    \/ \E id \in AllIds, reaped \in BOOLEAN : ProcExit(id, reaped)

\* lookups and removals of named and unnamed VMs
RegNext ==
    \/ \E name \in NameSet \cup {NoName}, base \in BOOLEAN :
          Spawn(name, FALSE, base, FALSE, "ok", "ready")
    \/ \E key \in Keys : Get(key)
    \/ \E key \in Keys : Remove(key)
    \/ \E h \in 1..MaxHandles : Pause(h)
    \/ \E h \in 1..MaxHandles : Kill(h)
    \/ \E h \in 1..MaxHandles : Drop(h)
    \/ \E id \in AllIds, reaped \in BOOLEAN : ProcExit(id, reaped)

\* names: spawn and rename through the runtime, and the registry used directly
NamesNext ==
    \/ \E name \in NameSet \cup {NoName} :
          Spawn(name, FALSE, FALSE, FALSE, "ok", "ready")
    \/ \E key \in Keys, n \in NameSet : Rename(key, n)
    \/ \E name \in NameSet \cup {NoName} : DbInsert(name)
    \/ \E id \in AllIds, n \in NameSet : DbUpdateName(id, n)
    \/ \E id \in AllIds : DbDelete(id)
    \/ \E h \in 1..MaxHandles : Drop(h)
    \/ \E id \in AllIds, reaped \in BOOLEAN : ProcExit(id, reaped)

\* spawn with every outcome of its steps and of the readiness wait
SpawnNext ==
    \/ \E name \in NameSet \cup {NoName}, auto \in BOOLEAN, base \in BOOLEAN,
          console \in BOOLEAN, outcome \in {"ok", "overlayFail", "jailFail"},
          ready \in {"ready", "died", "timeout"} :
            Spawn(name, auto, base, console, outcome, ready)
    \/ \E h \in 1..MaxHandles : Drop(h)
    \/ \E id \in AllIds, reaped \in BOOLEAN : ProcExit(id, reaped)

\* pulls and removals on the image store
StoreNext ==
    \/ \E ref \in Refs, m \in Manifests, tarOk \in BOOLEAN : Pull(ref, m, tarOk)
    \/ \E ref \in Refs : RemoveImage(ref)

\* one connection, from the client's connect to both ends finishing
ConnNext ==
    \/ \E op \in ClientOps, sameVersion \in BOOLEAN, timeout \in BOOLEAN :
          Connect(op, sameVersion, timeout)
    \/ RawClose
    \/ RecvAck
    \/ HostEofRecv
    \/ \E fin \in BOOLEAN : SendUpload(fin)
    \/ RecvUploadResult
    \/ RecvDownload
    \/ \E close \in BOOLEAN : ExecSend(close)
    \/ ExecRecv
    \/ ControlRequest
    \/ ControlResponse
    \/ HostDrop
    \/ \E spawnOk \in BOOLEAN : Session(spawnOk)
    \/ ControlHandle
    \/ \E outcome \in {"chunk", "done", "error", "abort"} : HandleDownload(outcome)
    \/ \E ok \in BOOLEAN : HandleUpload(ok)
    \/ ExecHostMsg
    \/ ExecHostGone
    \/ \E stream \in {"stdout", "stderr"}, eof \in BOOLEAN : ExecRead(stream, eof)
    \/ \E waitOk \in BOOLEAN : SendExit(waitOk)
    \/ ChildExit
    \/ TimerFire

\* data handed to send_upload, its chunk sizes, and recv_upload's limits
UploadData == {<<>>, D3, DBig}
ChunkSizes == {1, 2, 4, MAX_FRAME}
Limits == {0, 2, 3, MAX_UPLOAD_BYTES}

\* frames and uploads written to and read from one stream
CodecNext ==
    \/ \E k \in 1..Len(Messages) : CodecSend(k)
    \/ \E hdr \in Headers, n \in {0, 2, MAX_FRAME} : CodecCraft(hdr, n)
    \/ CodecRecv
    \/ \E data \in UploadData, c \in ChunkSizes : UploadSend(data, c)
    \/ \E max \in Limits : UploadRecv(max)
    \/ CodecReset

\* archives copied into the guest, files written, links made in the guest
FileNext ==
    \/ \E to \in LinkTargets : GuestSymlink(to)
    \/ \E dest \in Dests, entries \in Archives, chunks \in Uploads :
           CopyIn(dest, entries, chunks)
    \/ \E path \in {<<"d", "f">>, <<"d", "ln">>, <<"d", "new", "g">>},
          chunks \in Uploads : FileWrite(path, chunks)

\* mounts made in the guest and requests on the control channel
ControlNext ==
    \/ \E sb \in Superblocks, kind \in MountKinds : Mount(sb, kind)
    \/ \E c \in Conns : Ping(c)
    \/ \E c \in Conns : Quiesce(c)
    \/ \E c \in Conns : Thaw(c)

\* the parent, the shim it spawns and the handles on it
WdNext ==
    \/ \E linux \in BOOLEAN, env \in {Unset, 3}, own \in BOOLEAN :
           ParentStart(linux, env, own)
    \/ WdSpawn
    \/ \E ok \in BOOLEAN : PreExec(ok)
    \/ Exec
    \/ WdSpawnReturn
    \/ start_watchdog
    \/ wait_for_parent_death
    \/ ShimOpen
    \/ ShimExit
    \/ DropHandle
    \/ ParentExit
    \/ WdGet
    \/ DropGet

\* ids a caller of StateDb::insert may choose: one is a prefix of two others
PrefixIds == {<<1>>, <<1, 1>>, <<1, 2>>, <<2, 1>>}
\* strings passed to get_by_id_prefix
PrefixKeys == {<<>>, <<1>>, <<1, 1>>, <<2>>, <<2, 2>>, <<Upper.A>>,
               <<Wildcard.underscore>>, <<2, Wildcard.underscore>>,
               <<Wildcard.percent, 2>>}

\* records inserted into the registry and looked up by id prefix
PrefixNext ==
    \/ \E id \in PrefixIds : DbInsertId(id)
    \/ \E key \in PrefixKeys : DbGetByIdPrefix(key)

\* layers saved in the store directly
LayerNext ==
    \E data \in LayerData, io \in {"ok", "write", "rename", "db"} : SaveLayer(data, io)

\* the layers of a two-layer image extracted
ExtractNext ==
    \E lower \in TarsOf(LowerEntries), upper \in TarsOf(UpperEntries) :
        ExtractLayerFiles(<<lower, upper>>)

\* overlays made and removed
DiskNext ==
    \/ \E base \in BaseFiles, vm_id \in VmIds, io \in {"ok", "write", "rename"} :
           CreateOverlay(base, vm_id, io)
    \/ \E vm_id \in VmIds : RemoveVmDisk(vm_id)

\* the steps of the shim process and of its watchdog thread are taken
\* when they can be
WdFair ==
    /\ WF_vars(\E ok \in BOOLEAN : PreExec(ok))
    /\ WF_vars(Exec)
    /\ WF_vars(start_watchdog)
    /\ WF_vars(wait_for_parent_death)


SpecLife == Init /\ [][LifeNext]_vars
\* a stop call that can take its next step takes it
StopFair ==
    /\ WF_vars(\E h \in 1..MaxHandles, reply \in {"Ok", "Err"} : ShutdownReturns(h, reply))
    /\ WF_vars(\E h \in 1..MaxHandles, exited \in BOOLEAN : Stop(h, exited))
SpecLifeFair == SpecLife /\ StopFair
SpecReg == Init /\ [][RegNext]_vars
SpecNames == Init /\ [][NamesNext]_vars
SpecSpawn == Init /\ [][SpawnNext]_vars
SpecStore == Init /\ [][StoreNext]_vars
SpecConn == Init /\ [][ConnNext]_vars
SpecCodec == Init /\ [][CodecNext]_vars
SpecFile == Init /\ [][FileNext]_vars
SpecControl == Init /\ [][ControlNext]_vars
SpecPrefix == Init /\ [][PrefixNext]_vars
SpecLayer == Init /\ [][LayerNext]_vars
SpecExtract == Init /\ [][ExtractNext]_vars
SpecDisk == Init /\ [][DiskNext]_vars
SpecWatchdog == Init /\ [][WdNext]_vars
SpecWatchdogFair == SpecWatchdog /\ WdFair
SpecPipe == Init /\ [][PipeNext]_vars
SpecTemp == Init /\ [][TempNext]_vars

\* ------------------------------------------------------------------------
\* Properties
\* ------------------------------------------------------------------------
\* C1: the persisted status of a record changes only along Running->Paused,
\* Paused->Running, Running->Stopped and Paused->Stopped, whatever handles
\* perform pause, resume, stop, kill, wait, list and get; in particular a
\* record persisted as Stopped never becomes Running or Paused again.
C1_StatusTransitions ==
    [][\A i \in DOMAIN db \cap DOMAIN db' :
          db'[i].status # db[i].status =>
             <<db[i].status, db'[i].status>> \in
                {<<"Running", "Paused">>, <<"Paused", "Running">>,
                 <<"Running", "Stopped">>, <<"Paused", "Stopped">>}]_vars

\* C2: for a VM spawned with auto_remove, becoming Stopped deletes the row,
\* the socket and the overlay together: no Stopped record with auto_remove
\* stays persisted, the socket exists exactly while the row does, and the
\* overlay does not outlive the row.
C2_AutoRemoveTogether ==
    /\ \A i \in DOMAIN db : ~(db[i].auto_remove /\ db[i].status = "Stopped")
    /\ \A i \in DOMAIN spawned : spawned[i] =>
          /\ (i \in socks) = (i \in DOMAIN db)
          /\ (i \in overlays) => (i \in DOMAIN db)

\* C3 (as amended): at most one record holds a given name; a spawn or insert
\* under a held name fails (spawn with Ambiguous) and adds no record; a
\* rename to a name held by a different id fails and changes no record's
\* name nor the set of records (the lookup it starts with may still demote
\* a dead VM to Stopped); a rename to the VM's own current name succeeds.
C3_NameUnique ==
    /\ [](\A i, j \in DOMAIN db :
            (i # j /\ db[i].name # NoName) => db[i].name # db[j].name)
    /\ [][LET held(n, self) == n # NoName /\
                                \E j \in DOMAIN db : j # self /\ db[j].name = n
              names(d)      == [i \in DOMAIN d |-> d[i].name]
              target        == last'.id
          IN  /\ (last'.op \in {"spawn", "insert"} /\ held(last'.name, NoId)) =>
                    /\ last'.res # "Ok"
                    /\ last'.op = "spawn" => last'.res = "Ambiguous"
                    /\ names(db') = names(db)
              /\ (last'.op \in {"rename", "update_name"} /\ target \in DOMAIN db
                    /\ held(last'.name, target)) =>
                    /\ last'.res # "Ok"
                    /\ names(db') = names(db)
              /\ (last'.op \in {"rename", "update_name"} /\ target \in DOMAIN db
                    /\ db[target].name = last'.name) =>
                    /\ last'.res = "Ok"
                    /\ names(db') = names(db)]_vars

\* C3, the case: a rename to a name held by another record was refused
C3_Witness ==
    /\ last.op = "rename"
    /\ last.res = "Ambiguous"
    /\ \E j \in DOMAIN db : j # last.id /\ db[j].name = last.name

\* C3 as stated: a rename to a name held by a different id fails and
\* changes nothing in the registry.
C3_RenameChangesNothing ==
    [][(last'.op = "rename" /\ last'.id \in DOMAIN db /\
        \E j \in DOMAIN db : j # last'.id /\ db[j].name = last'.name) =>
           (last'.res # "Ok" /\ db' = db)]_vars

\* C4: after list or get, every record examined that was Running or Paused
\* with its process gone is Stopped in the value returned and in the
\* registry, every record whose process is alive keeps its status; hence a
\* persisted Running implies the process was alive at the latest reconcile.
C4_ReconcileDemotes ==
    /\ [][(last'.op \in {"list", "get"} /\ last'.res = "Ok") =>
            \A i \in DOMAIN db :
              (last'.op = "list" \/ i = last'.id) =>
                IF db[i].status \in {"Running", "Paused"} /\ ~is_pid_alive(i)
                THEN /\ i \in DOMAIN db' => db'[i].status = "Stopped"
                     /\ i \in DOMAIN last'.ret => last'.ret[i] = "Stopped"
                ELSE is_pid_alive(i) =>
                     /\ i \in DOMAIN db' /\ db'[i].status = db[i].status
                     /\ i \in DOMAIN last'.ret /\ last'.ret[i] = db[i].status]_vars
    /\ [](\A i \in DOMAIN db : db[i].status = "Running" => reconciled[i] # "dead")

C6_SpawnReportsReadiness ==
    (last.op = "spawn" /\ last.ready # "none") =>
        /\ last.ready = "died" => last.res = "BrokenPipe"
        /\ last.ready = "timeout" => last.res = "TimedOut"
        /\ last.res = "Ok" => last.ready = "ready"

\* C7: every layer listed by a stored image has an association, a layer
\* record with ref_count > 0 and its blob on disk, after any pulls and
\* removals; so removing an image deletes no layer record or blob that
\* another stored image references.
C7_ReferencedLayersExist ==
    \A r \in DOMAIN images : \A d \in LayersOf(images[r]) :
        /\ Associated(image_layers, r, d)
        /\ d \in DOMAIN layers
        /\ layers[d] > 0
        /\ d \in blobs

\* C7, the case: an image was removed while another stored image references
\* one of its layers
C7_Witness ==
    /\ slast.op = "remove_image"
    /\ slast.res = "Ok"
    /\ \E r \in DOMAIN images : LayersOf(images[r]) \cap slast.refd # {}

\* C8: a layer's ref_count equals the number of stored images referencing
\* it and a layer referenced by no image has been deleted; every completed
\* pull and every removal keeps it so.
C8_RefCountMatchesImages ==
    [][LET exact(ls, il, imgs) ==
             \A d \in DOMAIN ls :
                 /\ ls[d] = Cardinality({r \in DOMAIN imgs : Associated(il, r, d)})
                 /\ ls[d] > 0
       IN  (exact(layers, image_layers, images) /\ slast'.res = "Ok") =>
              exact(layers', image_layers', images')]_vars

\* C9: on an exec connection ExecStarted precedes every Stdout and Stderr
\* frame; a handler that sent ExecStarted and ends with the connection still
\* writable has sent exactly one Exit, and an Exit is the last frame; after
\* HelloAck::Error for a failed spawn there is no ExecStarted and no Exit.
C9_ExecFrames ==
    cop \in {"exec_pipe", "exec_pty"} =>
        /\ \A k \in 1..Len(gsent) : gsent[k] \in ExecOutput =>
               \E j \in 1..(k - 1) : gsent[j] = "HelloAck.ExecStarted"
        /\ \A k \in 1..Len(gsent) : gsent[k] = "ExecOut.Exit" => k = Len(gsent)
        /\ (gpc = "done" /\ Writable /\ Count(gsent, {"HelloAck.ExecStarted"}) = 1)
              => Count(gsent, {"ExecOut.Exit"}) = 1
        /\ Count(gsent, {"HelloAck.Error"}) > 0 =>
              Count(gsent, {"HelloAck.ExecStarted", "ExecOut.Exit"}) = 0

\* C10: the guest sends nothing before it received the Hello and handles
\* one Hello per connection; its first frame is a HelloAck and it sends no
\* second one; on file connections that HelloAck is Ready and precedes every
\* Download and UploadResult frame; the client sends no Upload frame and
\* accepts no payload frame before it received the matching HelloAck.
C10_HelloAckFirst ==
    /\ [](/\ gpc = "hello" => gsent = <<>>
          /\ gsent # <<>> =>
                /\ gsent[1] \in HelloAcks
                /\ \A k \in 2..Len(gsent) : gsent[k] \notin HelloAcks
                /\ cop \in FileOps => gsent[1] = "HelloAck.Ready"
          /\ \A k \in 1..Len(hlog) :
                (\/ hlog[k][1] = "send" /\ hlog[k][2] \in {"Upload.Chunk", "Upload.Done"}
                 \/ hlog[k][1] = "recv" /\ hlog[k][2] \in Payload) =>
                   \E j \in 1..(k - 1) : hlog[j] = <<"recv", ExpectedAck(cop)>>)
    /\ [][gpc # "hello" => gpc' # "hello"]_vars

\* C10, the case: write_file ran to its end
C10_Witness ==
    /\ cop = "write_file"
    /\ hpc = "done"
    /\ gsent = <<"HelloAck.Ready", "UploadResult.Ok">>
    /\ Count(hlog, {<<"send", "Upload.Chunk">>}) > 0

\* C11: an exec whose child is still running when the timeout fires is
\* SIGKILLed by the watcher and, the connection staying writable, ends with
\* an Exit carrying timed_out = true and signal = 9; with timeout_ms = 0
\* Exit carries timed_out = false; timed_out = true is reported only when
\* the watcher's SIGKILL ended the child.
C11_TimeoutExit ==
    /\ (eexit.sent /\ ekilledby = "timer") =>
           (eexit.timed_out /\ eexit.signal = <<9>>)
    /\ (gpc = "done" /\ Writable /\ ekilledby = "timer") => eexit.sent
    /\ (eexit.sent /\ ~etimeout) => ~eexit.timed_out
    /\ (eexit.sent /\ eexit.timed_out) => ekilledby = "timer"

\* C12: when the host has dropped its exec handle, the exec handler does
\* not end leaving the child running, in pipe mode and in PTY mode.
C12_HostGoneKillsChild ==
    (cop \in {"exec_pipe", "exec_pty"} /\ hopen = "closed" /\ gpc = "done")
        => child # "run"

\* C13: a Hello::Control of another version is answered with
\* HelloAck::Error(VersionMismatch) and nothing else, no ControlReq is
\* processed, the session ends and the host's operation fails; with equal
\* versions the answer is HelloAck::Control and handshake returns Ok.
C13_VersionMismatch ==
    LET first    == IF hlog = <<>> THEN <<"none", "none">> ELSE hlog[1]
        mismatch == first = <<"send", "Hello.Control.v0">>
        same     == first = <<"send", "Hello.Control">>
    IN  /\ mismatch =>
            /\ gpc \in {"hello", "done"}
            /\ hpc \in {"hello_sent", "failed"}
            /\ gsent \in {<<>>, <<"HelloAck.Error">>}
            /\ gsent # <<>> => (gcode = "VersionMismatch" /\ gpc = "done")
            /\ Len(hlog) >= 2 => hpc = "failed"
        /\ same =>
            /\ gsent # <<>> => gsent[1] = "HelloAck.Control"
            /\ (cop = "handshake" /\ Len(hlog) >= 2) =>
                   (hlog[2] = <<"recv", "HelloAck.Control">> /\ hpc = "done")

\* C13, the case: a handshake with another version was refused
C13_Witness ==
    /\ cop = "handshake"
    /\ hlog = <<<<"send", "Hello.Control.v0">>, <<"recv", "HelloAck.Error">>>>
    /\ gcode = "VersionMismatch"
    /\ hpc = "failed"
    /\ gpc = "done"

\* C14: recv of the type that was sent returns a message equal to the one
\* send wrote, for every variant of every message type, and consumes exactly
\* that frame: the bytes left on the stream are the frames of the messages
\* written after it, so back-to-back messages arrive whole and in order.
C14_RoundTrip ==
    LET FrameOf(w) ==
            IF w.kind = "msg"
            THEN send(Messages[w.k][2], Messages[w.k][3], <<>>).wire
            ELSE send_upload(<<>>, w.data, w.c)
        RECURSIVE WireOf(_)
        WireOf(p) == IF p = <<>> THEN <<>> ELSE BCat(FrameOf(p[1]), WireOf(Tail(p)))
    IN  (cdlast.op = "recv" /\ cdlast.from.kind = "msg") =>
            /\ cdlast.res = "Ok"
            /\ cdlast.val = Messages[cdlast.from.k][3]
            /\ wire = WireOf(pending)

\* C15: a recv that finds a length header above 16 MiB fails and has read
\* the 4 header bytes only, every payload byte is still on the stream; a
\* header of at most 16 MiB is never rejected as too large.
C15_FrameBound ==
    [][(cdlast'.op = "recv" /\ BLen(wire) >= 4) =>
          LET h == from_be_bytes(BTake(wire, 4))
          IN  /\ h > 16 * 1024 * 1024 =>
                    (cdlast'.res = "TooLarge" /\ wire' = BDrop(wire, 4))
              /\ h <= 16 * 1024 * 1024 => cdlast'.res # "TooLarge"]_vars

\* C15 witness: a crafted header of 16 MiB + 1 was rejected with its two
\* payload bytes unread
C15_Witness ==
    /\ cdlast.op = "recv"
    /\ cdlast.from.kind = "craft"
    /\ cdlast.from.data = Lit(<<1, 0, 0, 1>>)
    /\ cdlast.res = "TooLarge"
    /\ wire = Run(0, 2)

\* C16: a send that succeeds wrote a payload of at most 16 MiB, and no frame
\* written by send is rejected by recv as too large.
C16_SendEnforcesLimit ==
    /\ (cdlast.op = "send" /\ cdlast.res = "Ok") => cdlast.len <= 16 * 1024 * 1024
    /\ (cdlast.op = "recv" /\ cdlast.from.kind = "msg") => cdlast.res # "TooLarge"

\* C17: recv_upload(max) on what send_upload(data, c) wrote returns data, and
\* has read every frame up to and including the one Done, when data is at
\* most max bytes long; it fails when data is longer than max.
C17_UploadRoundTrip ==
    cdlast.op = "recv_upload" =>
        LET data == cdlast.from.data
        IN  /\ BLen(data) <= cdlast.max =>
                  /\ cdlast.res = "Ok"
                  /\ cdlast.val = data
                  /\ cdlast.read = BLen(send_upload(<<>>, data, cdlast.from.c))
            /\ BLen(data) > cdlast.max => cdlast.res # "Ok"

C19_ErrorCodes ==
    /\ (flast.op = "copy_in" /\ flast.ans.kind = "PermissionDenied") =>
            flast.ans.code = "PermissionDenied"
    /\ (flast.op \in {"copy_in", "write"}
            /\ flast.chunks * STREAM_CHUNK_SIZE > MAX_UPLOAD_BYTES) =>
            (flast.ans.res = "UploadResult.Error" /\ flast.ans.code = "LimitExceeded")

\* C20: a Thaw handled right after a Quiesce answers with a thawed_count
\* equal to the frozen_count of that Quiesce.
C20_ThawMatchesQuiesce ==
    (ctl.op = "Thaw" /\ ctl.prev = "Quiesce") => ctl.count = ctl.prev_count

\* C21: once the parent has exited or the Keepalive of the handle returned
\* by spawn has been dropped, the shim eventually exits; while the Keepalive
\* is held by a live parent the watchdog does not end the shim; dropping a
\* handle obtained from Runtime::get changes nothing of the shim or the pipe
C21_WatchdogEndsShim ==
    /\ (shim.pc \in {"started", "running"}
          /\ (wparent.state = "exited" \/ keepalive.state = "dropped"))
         ~> (shim.pc = "exited")
    /\ [](wparent.state = "alive" /\ keepalive.state = "held"
            => shim.cause # "watchdog")
    /\ [][gets' < gets => shim' = shim /\ pfds' = pfds]_vars

\* C22: the started shim finds in BUX_WATCHDOG_FD the number of an open
\* descriptor that is the read end of the pipe, has no write end open, and
\* the read end is still open after the pre-exec closure
C22_ReadEndReachesShim ==
    /\ shim.pc \in {"hardened", "started"}
         => \E f \in Fds : shim.fds[f].end = "r"
    /\ shim.pc = "started"
         => /\ shim.env \in Fds
            /\ shim.fds[shim.env].end = "r"
            /\ \A f \in Fds : shim.fds[f].end # "w"

\* C23: get_by_id_prefix(p) returns the record whose id is p when there is
\* one, whatever other ids start with p; otherwise the only record whose id
\* starts with p; Ambiguous when more than one id starts with p and
\* NotFound when none does
C23_PrefixLookup ==
    last.op = "get_by_id_prefix" =>
        LET p == last.key
            starting == {i \in DOMAIN db : IsPrefix(p, i)}
        IN  IF p \in DOMAIN db THEN last.res = "Ok" /\ last.id = p
            ELSE IF starting = {} THEN last.res = "NotFound"
            ELSE IF Cardinality(starting) = 1
                 THEN last.res = "Ok" /\ last.id \in starting
            ELSE last.res = "Ambiguous"

\* the blob files of the layers directory that hold the bytes data
BlobsWith(data) ==
    {q \in DOMAIN blobdata : q[Len(q)] = "gz" /\ blobdata[q] = data}

AfterLower == apply_tar(create_dir_all(EmptyFs, Rootfs).fs, Rootfs, xlast.tars[1]).fs
AfterUpper(k) == apply_tar(AfterLower, Rootfs, SubSeq(xlast.tars[2], 1, k)).fs
\* no whiteout and no marker is a file of the rootfs
NoMarkerFile(f) ==
    \A q \in DOMAIN f : q = <<>> \/ q[Len(q)] \notin DOMAIN WhiteoutOf \cup {OpaqueMarker}
\* the k-th entry of the upper layer is the whiteout of something the
\* lower layer created and that is still there
WhiteoutHits(k) ==
    LET e == xlast.tars[2][k]
        T == Rootfs \o Parent(e.path) \o <<WhiteoutOf[e.path[Len(e.path)]]>>
    IN  /\ e.path[Len(e.path)] \in DOMAIN WhiteoutOf
        /\ lexists(AfterLower, T)
        /\ lexists(AfterUpper(k - 1), T)

\* C25: a whiteout .wh.X in directory P of the upper layer removes P/X, a
\* file, a link or a whole tree, that the lower layer created, and nothing
\* else: P and everything not below P/X stay as they were, and no file
\* named .wh.X is created
C25_Whiteout ==
    xlast.res = "Ok" /\ xlast.op = "extract_layer_files" =>
        /\ NoMarkerFile(rfs)
        /\ \A k \in 1..Len(xlast.tars[2]) :
              WhiteoutHits(k) =>
                 LET e == xlast.tars[2][k]
                     P == Rootfs \o Parent(e.path)
                     T == Append(P, WhiteoutOf[e.path[Len(e.path)]])
                     before == AfterUpper(k - 1)
                     after == AfterUpper(k)
                     real == locate(before, T).path
                 IN  /\ ~lexists(after, T)
                     /\ is_dir(after, P)
                     /\ \A q \in DOMAIN before :
                           ~starts_with(q, real) => q \in DOMAIN after /\ after[q] = before[q]
                     /\ DOMAIN after \subseteq DOMAIN before
                     /\ k = Len(xlast.tars[2]) => rfs = after

\* a/.wh.x has removed the tree a/x of the lower layer and a/y is left
C25_Witness ==
    /\ xlast.op = "extract_layer_files" /\ xlast.res = "Ok"
    /\ xlast.tars[1] = <<TarEntry(<<"a", "x", "y">>, "file", <<>>),
                         TarEntry(<<"a", "y">>, "file", <<>>)>>
    /\ xlast.tars[2] = <<TarEntry(<<"a", ".wh.x">>, "file", <<>>)>>
    /\ DOMAIN rfs = {<<>>, <<"rootfs">>, <<"rootfs", "a">>, <<"rootfs", "a", "y">>}

\* the k-th entry of the upper layer is an opaque marker in a directory
\* that exists
OpaqueHits(k) ==
    LET e == xlast.tars[2][k]
    IN  /\ e.path[Len(e.path)] = OpaqueMarker
        /\ is_dir(AfterUpper(k - 1), Rootfs \o Parent(e.path))

\* C26: an opaque marker in directory P of the upper layer removes every
\* child of P that the lower layer created and keeps P and everything
\* outside P; no marker file is created
C26_Opaque ==
    xlast.res = "Ok" /\ xlast.op = "extract_layer_files" =>
        /\ NoMarkerFile(rfs)
        /\ \A k \in 1..Len(xlast.tars[2]) :
              OpaqueHits(k) =>
                 LET P == Rootfs \o Parent(xlast.tars[2][k].path)
                     before == AfterUpper(k - 1)
                     after == AfterUpper(k)
                 IN  /\ is_dir(after, P)
                     /\ \A q \in DOMAIN AfterLower :
                           starts_with(q, P) /\ q # P => q \notin DOMAIN after
                     /\ \A q \in DOMAIN before :
                           ~(starts_with(q, P) /\ q # P)
                              => q \in DOMAIN after /\ after[q] = before[q]
                     /\ k = Len(xlast.tars[2]) => rfs = after

\* a/.wh..wh..opq has emptied the directory a of the lower layer, b is left
C26_Witness ==
    /\ xlast.op = "extract_layer_files" /\ xlast.res = "Ok"
    /\ xlast.tars[1] = <<TarEntry(<<"a", "x", "y">>, "file", <<>>),
                         TarEntry(<<"b", "y">>, "file", <<>>)>>
    /\ xlast.tars[2] = <<TarEntry(<<"a", OpaqueMarker>>, "file", <<>>)>>
    /\ DOMAIN rfs = {<<>>, <<"rootfs">>, <<"rootfs", "a">>, <<"rootfs", "b">>,
                     <<"rootfs", "b", "y">>}

\* the header fields of an image, read back
backing_file_offset(buf) == from_be_bytes(slice(buf, 12, 4))
backing_file_size(buf) == from_be_bytes(slice(buf, 16, 4))
virtual_size(buf) == from_be_bytes(slice(buf, 28, 4))

\* an image as the claim describes it, for a base path and a base length
IsOverlayOf(buf, canonical, len) ==
    /\ BLen(buf) = 4 * CLUSTER_SIZE
    /\ slice(buf, 24, 4) = Run(0, 4) /\ virtual_size(buf) = len
    /\ slice(buf, 8, 4) = Run(0, 4)
    /\ slice(buf, backing_file_offset(buf), backing_file_size(buf)) = Lit(canonical)
    /\ slice(buf, CLUSTER_SIZE, CLUSTER_SIZE) = Run(0, CLUSTER_SIZE)
    /\ slice(buf, 3 * CLUSTER_SIZE, 10) = Lit(<<0, 1, 0, 1, 0, 1, 0, 1, 0, 0>>)

\* C27: create_overlay of an existing base leaves at {vm_id}.qcow2 a file
\* of 4 * 65536 bytes whose virtual_size is the base's length, whose backing
\* file name is the canonical path of the base, whose L1 table is zero and
\* whose refcounts are 1 for clusters 0..3 and 0 for cluster 4; and whatever
\* is at a name {vm_id}.qcow2 is a whole image
C27_OverlayImage ==
    /\ dlast.op = "create_overlay" /\ dlast.res = "Ok" =>
          /\ vm_disk_path(dlast.vm_id) \in DOMAIN vmsdir
          /\ IsOverlayOf(vmsdir[vm_disk_path(dlast.vm_id)], dlast.base, dlast.len)
    /\ \A q \in DOMAIN vmsdir : Len(q) = 2 => BLen(vmsdir[q]) = 4 * CLUSTER_SIZE


\* C28: an overlay {vm_id}.qcow2 exists exactly as long as its VM record:
\* no overlay exists without its record; whenever a record is deleted (by
\* remove, by mark_stopped with auto_remove, or by list's auto-removal) its
\* overlay and its socket are gone too; and no overlay is deleted while its
\* record remains.
C28_OverlayWithRecord ==
    /\ [](\A i \in overlays : i \in DOMAIN db)
    /\ [][/\ \A i \in DOMAIN db \ DOMAIN db' :
                i \notin overlays' /\ i \notin socks'
          /\ \A i \in overlays \ overlays' : i \notin DOMAIN db']_vars


\* C29: a stop call first makes its Shutdown request and goes on to the wait
\* whether the request succeeded or failed, and it returns; SIGKILL is sent
\* only to a process that had not exited, and without it the process has
\* exited; when stop returns Ok the record is persisted as Stopped, or is
\* deleted when auto_remove is set.
C29_Stop ==
    /\ \A h \in 1..MaxHandles : (stopcall[h] # NoStop) ~> (stopcall[h] = NoStop)
    /\ [][\A h \in 1..MaxHandles :
            (stopcall[h].pc = "wait" /\ stopcall'[h] = NoStop) =>
               /\ last'.sigkill => last'.was \in {"run", "stopped"}
               /\ ~last'.sigkill => proc'[last'.id] = "gone"
               /\ IF handles[h].auto
                  THEN last'.id \notin DOMAIN db'
                  ELSE /\ last'.id \in DOMAIN db'
                       /\ db'[last'.id].status = "Stopped"]_vars


\* C30: in pipe mode, with the host connected, once Exit has been sent the
\* Stdout frames before it make up all the child wrote to stdout, in order,
\* and the Stderr frames all it wrote to stderr; both streams have reached
\* end of file and the child has been waited for.
C30_PipeOutput ==
    (pin.conn /\ pguest.exit_sent) =>
        /\ \E o \in {wait_with_output(pout)} :
              /\ o.res = "Ok"
              /\ o.stdout = pchild.out.stdout
              /\ o.stderr = pchild.out.stderr
        /\ pguest.done = Streams
        /\ pchild.waited


\* the layer association stored for ref, as the set of its
\* <<position, layer_digest>> rows, and the one a list of digests asks for
StoredLayers(il, ref) == {<<p[3], p[2]>> : p \in {q \in il : q[1] = ref}}
ListedLayers(m) == {<<k - 1, m[k]>> : k \in 1..Len(m)}

\* C31: after an upsert_image that commits, the association stored for the
\* reference is the list it was given: the same digests at positions
\* 0..n-1, each as often as the list has it, and no row of an earlier
\* upsert; an upsert that fails changes no image row and no association.
C31_UpsertExact ==
    /\ [](\A r \in DOMAIN images :
             StoredLayers(image_layers, r) = ListedLayers(images[r]))
    /\ [][(slast'.op = "pull" /\ slast'.res # "Ok") =>
             (images' = images /\ image_layers' = image_layers)]_vars


\* the superblocks of the mount points of a list
SbOf(list) == {list[k].sb : k \in 1..Len(list)}

\* C32: the list recorded by Quiesce is one for all control connections and
\* Thaw consumes it: a Thaw on any connection thaws what the most recent
\* Quiesce, on whichever connection, recorded and leaves the list empty;
\* only a Quiesce records anything, so a Thaw that finds the list empty
\* (a second Thaw with no Quiesce in between) thaws nothing and reports 0.
C32_ThawConsumes ==
    [][/\ (ctl'.op = "Thaw" /\ ops' # ops) =>
             /\ FROZEN_MOUNTS' = <<>>
             /\ SbOf(FROZEN_MOUNTS) \cap sbfrozen' = {}
             /\ FROZEN_MOUNTS = <<>> => (ctl'.count = 0 /\ sbfrozen' = sbfrozen)
             /\ ctl.op = "Thaw" => ctl'.count = 0
       /\ FROZEN_MOUNTS' # FROZEN_MOUNTS =>
             (ops' # ops /\ ctl'.op \in {"Quiesce", "Thaw"})
       /\ (ctl'.op = "Quiesce" /\ ops' # ops) =>
             /\ Len(FROZEN_MOUNTS') = ctl'.count
             /\ SbOf(FROZEN_MOUNTS') \subseteq sbfrozen']_vars

\* C32, the case: a Thaw on one connection has thawed what a Quiesce on the
\* other connection had frozen
C32_Witness ==
    /\ ctl.op = "Thaw"
    /\ ctl.prev = "Quiesce"
    /\ ctl.conn # ctl.prev_conn
    /\ ctl.count > 0
    /\ FROZEN_MOUNTS = <<>>

\* C33: when a handler of FileWrite, CopyIn or CopyOut has finished, the
\* temp file it created for the transfer no longer exists, whatever the
\* outcome of the handler was
C33_TempRemoved ==
    tlast.op # "none" => tlast.temp \notin tmpfiles

\* the same for the outcomes in which every step before the removal ran:
\* success, an upload over the limit, a disconnect during the upload, a
\* failed copy to the final path, a failed extraction, a failed archive
C33_TempRemovedListed ==
    (tlast.op # "none" /\ tlast.fault \notin {"join", "open"})
        => tlast.temp \notin tmpfiles

C33_Leak ==
    /\ tlast.op = "handle_copy_out"
    /\ tlast.fault = "open"
    /\ tlast.made
    /\ tlast.temp \in tmpfiles

\* the wire bytes of the ExecIn::Stdin frames for a sequence of payloads
RECURSIVE StdinWire(_)
StdinWire(datas) ==
    IF datas = <<>> THEN <<>>
    ELSE BCat(send(ExecIn, <<0, <<Head(datas)>>>>, <<>>).wire,
              StdinWire(Tail(datas)))

\* the bytes the host has written that no recv has returned as a message
\* yet: those the pending recv has taken, those in the socket, those in flight
Undelivered == BCat(BCat(pin.rbuf, pin.sock), pin.net)

\* C34: while handle_pipe is in its loop, the host's bytes that have not
\* been delivered as a message are whole ExecIn frames, so that every frame
\* is delivered whole and in order and the next recv starts at a frame
\* boundary, also after a pending recv was abandoned for an output read
C34_FramesWhole ==
    pguest.pc = "loop" =>
        \E n \in 0..MaxStdin : \E datas \in [1..n -> StdinData] :
            Undelivered = StdinWire(datas)

\* C35: once the exec's child has been waited for and Exit has been sent,
\* the timeout watcher sends no SIGKILL to the pid any more, and neither the
\* timed_out flag nor the Exit that was reported changes
C35_TimerAfterExit ==
    [][eexit.sent => (etimer' = etimer /\ eflag' = eflag /\ eexit' = eexit)]_vars

\* the VM's process exists and has not exited: it runs or is stopped by SIGSTOP
ProcessLives(id) == proc[id] \in {"run", "stopped"}

\* C36: Runtime::remove never deletes the row, the socket or the overlay of
\* a VM whose process is still alive, a VM recorded as Paused included
C36_RemoveSparesLive ==
    [][(last'.op = "remove" /\ last'.res = "Ok")
           => \A id \in DOMAIN db :
                  ProcessLives(id) =>
                      /\ id \in DOMAIN db'
                      /\ id \in socks => id \in socks'
                      /\ id \in overlays => id \in overlays']_vars

\* C37: after a Runtime::spawn that returned an error nothing of the VM it
\* tried to make is left: no overlay disk, no socket, no live shim process
\* without a row
C37_FailedSpawnLeavesNothing ==
    (last.op = "spawn" /\ last.res # "Ok" /\ last.id # NoId) =>
        /\ last.id \notin overlays
        /\ last.id \notin socks
        /\ (last.id \notin DOMAIN db => ~ProcessLives(last.id))

\* Oci::ensure returns the cached result without pulling: the reference has
\* a digest in the index and the rootfs directory of that digest exists
EnsureCached(ref) == ref \in DOMAIN images /\ images[ref] \in DOMAIN rootfs

\* C38: every rootfs directory that exists for a manifest digest holds the
\* result of applying all layers of the manifest, so that what a later pull
\* skips extracting and what ensure returns from the cache is complete
C38_RootfsComplete ==
    /\ \A m \in DOMAIN rootfs : rootfs[m] = "complete"
    /\ \A ref \in Refs : EnsureCached(ref) => rootfs[images[ref]] = "complete"

\* C39: removing one reference leaves the rootfs directory that another
\* stored reference with the same manifest digest uses: for a reference
\* that stays stored, ensure returns the cached result afterwards if it
\* did before
C39_SharedRootfsKept ==
    [][slast'.op = "remove_image" =>
           \A other \in DOMAIN images \cap DOMAIN images' :
               EnsureCached(other) =>
                   /\ images'[other] = images[other]
                   /\ images'[other] \in DOMAIN rootfs'
                   /\ rootfs'[images'[other]] = rootfs[images[other]]]_vars

\* an entry that apply_tar unpacks: neither a whiteout nor an opaque marker
NormalEntry(e) ==
    LET file_name == e.path[Len(e.path)]
    IN  file_name # OpaqueMarker /\ file_name \notin DOMAIN WhiteoutOf

\* C40: an opaque marker in directory P hides only what earlier layers put
\* below P: in a layer whose only whiteout entries are opaque markers, every
\* entry the layer itself adds below P is present after the extraction,
\* whether it comes before or after the marker in the tar stream
C40_OpaqueKeepsOwnLayer ==
    (xlast.res = "Ok" /\ xlast.op = "extract_layer_files") =>
        LET upper == xlast.tars[2]
        IN  (\A i \in 1..Len(upper) :
                 upper[i].path[Len(upper[i].path)] \notin DOMAIN WhiteoutOf) =>
            \A k \in 1..Len(upper), j \in 1..Len(upper) :
                (/\ upper[k].path[Len(upper[k].path)] = OpaqueMarker
                 /\ NormalEntry(upper[j])
                 /\ starts_with(upper[j].path, Parent(upper[k].path)))
                    => (Rootfs \o upper[j].path) \in DOMAIN rfs
====
